---- MODULE Spec2Model ----
(***************************************************************************)
(* Verification model of the antipasta / code_cop metrics pipeline:        *)
(*   - hierarchical directory rollup   (cli/stats_collection.py)           *)
(*   - module grouping                 (cli/stats_collection.py)           *)
(*   - violation checker               (core/violations.py)                *)
(*   - file collection and overrides   (cli/metrics.py, config_override.py)*)
(*   - aggregator                      (code_cop/core/aggregator.py)       *)
(* Each component has its own specification over the shared variables.     *)
(***************************************************************************)
EXTENDS Integers, Sequences, FiniteSets, TLC

VARIABLES
    pc,           \* which operation has run ("start" before any)
    reports,      \* rollup input: list of FileReports
    depth,        \* rollup input: requested max depth (0 = unlimited)
    dir_stats,    \* rollup: the DirectoryNode table after aggregation
    results,      \* rollup: the result map of collect_directory_stats
    markers,      \* module grouping: directories that hold an __init__.py
    module_stats, \* module grouping: result of group_reports_by_module
    check_in,     \* violation checker: the (metric, config) pair checked
    check_out,    \* violation checker: the Violation returned, or None
    cli,          \* file collection: config, override, file system
    collected,    \* file collection: result of _collect_files
    agg,          \* aggregator: detector cache, input paths, adapter behaviour
    calls,        \* aggregator: outcome of each analyze_files call so far
    summary,      \* aggregator: result of generate_summary, or None
    hook,         \* pre-tool hook: the hook input and the decision printed
    gen,          \* config generate: prompts, answers and the output file
    bridge        \* dashboard bridge: project files, cache, callbacks run

vars == <<pc, reports, depth, dir_stats, results, markers, module_stats,
          check_in, check_out, cli, collected, agg, calls, summary,
          hook, gen, bridge>>

None == "None"

(***************************************************************************)
(* Generic helpers                                                         *)
(***************************************************************************)
Range(s) == {s[i] : i \in 1..Len(s)}

RECURSIVE SumSeq(_)
SumSeq(s) == IF s = <<>> THEN 0 ELSE s[1] + SumSeq(Tail(s))

Min2(a, b) == IF a <= b THEN a ELSE b

\* values[:n]
Take(s, n) == SubSeq(s, 1, Min2(n, Len(s)))

IsPrefix(p, q) == Len(p) <= Len(q) /\ SubSeq(q, 1, Len(p)) = p

\* pathlib: Path.parent (the root is its own parent)
Parent(p) == IF p = <<>> THEN p ELSE SubSeq(p, 1, Len(p) - 1)

\* pathlib: Path.name
Name(p) == IF p = <<>> THEN "" ELSE p[Len(p)]

RECURSIVE FlattenSeqs(_)
FlattenSeqs(ss) == IF ss = <<>> THEN <<>> ELSE ss[1] \o FlattenSeqs(Tail(ss))

(***************************************************************************)
(* Bounds of the explored inputs                                           *)
(***************************************************************************)
MaxReports == 3

\* Safety boundary for unlimited depth
MAX_DEPTH == 20

MetricsToInclude == {"cyclomatic_complexity"}

\* A directory MAX_DEPTH levels below p/a, to reach the safety boundary
DeepDir == <<"p", "a">> \o [i \in 1..MAX_DEPTH |-> "n"]

ReportDirs ==
    { <<"p", "a">>, <<"p", "a", "b">>, <<"p", "a", "b", "c">>, DeepDir }

\* The measurement lists an adapter can produce for one file
MetricProfiles ==
    { << [metric_type |-> "cyclomatic_complexity", value |-> 3, function_name |-> "f"] >>,
      << [metric_type |-> "cyclomatic_complexity", value |-> 1, function_name |-> "f"],
         [metric_type |-> "cyclomatic_complexity", value |-> 5, function_name |-> "g"] >>,
      << [metric_type |-> "lines_of_code", value |-> 7, function_name |-> None] >> }

FileNames == <<"f1.py", "f2.py", "f3.py", "f4.py", "f5.py">>

\* One FileReport per index; the file name is the index's, so paths are distinct
ReportLists(n) ==
    { [i \in 1..n |-> [file_path |-> ds[i] \o <<FileNames[i]>>, metrics |-> ms[i]]] :
        ds \in [1..n -> ReportDirs], ms \in [1..n -> MetricProfiles] }

DepthArgs == {0, 1, 2}

(***************************************************************************)
(* Hierarchical rollup: stats_collection.py                                *)
(***************************************************************************)
EmptyNode ==
    [direct_files |-> <<>>, all_files |-> <<>>, function_names |-> {},
     metrics |-> [m \in MetricsToInclude |-> <<>>]]

EmptyDirStats == [keys |-> <<>>, node |-> <<>>]

HasDir(ds, d) == d \in Range(ds.keys)

\* dict[key] on the defaultdict / ensure_parent_exists: insert an empty node
EnsureParentExists(ds, d) ==
    IF HasDir(ds, d) THEN ds
    ELSE [keys |-> Append(ds.keys, d),
          node |-> [k \in (DOMAIN ds.node) \cup {d} |->
                        IF k = d THEN EmptyNode ELSE ds.node[k]]]

SetNode(ds, d, n) == [ds EXCEPT !.node[d] = n]

ReportFunctionNames(r) ==
    { r.metrics[i].function_name : i \in {j \in 1..Len(r.metrics) :
                                            r.metrics[j].function_name # None} }

RECURSIVE MetricValues(_, _)
MetricValues(ms, m) ==
    IF ms = <<>> THEN <<>>
    ELSE (IF ms[1].metric_type = m THEN <<ms[1].value>> ELSE <<>>)
         \o MetricValues(Tail(ms), m)

AddReportToDir(ds, r) ==
    LET d  == Parent(r.file_path)
        e  == EnsureParentExists(ds, d)
        n  == e.node[d]
    IN  SetNode(e, d,
          [n EXCEPT !.direct_files = Append(@, r),
                    !.function_names = @ \cup ReportFunctionNames(r),
                    !.metrics = [m \in MetricsToInclude |->
                                   n.metrics[m] \o MetricValues(r.metrics, m)]])

RECURSIVE BuildFrom(_, _)
BuildFrom(ds, rs) ==
    IF rs = <<>> THEN ds ELSE BuildFrom(AddReportToDir(ds, rs[1]), Tail(rs))

build_directory_tree_structure(rs) == BuildFrom(EmptyDirStats, rs)

\* Mutant: the child's aggregated list is propagated instead of its direct files
aggregate_child_to_parent_all_files(ds, parent, child) ==
    LET p == ds.node[parent]
        c == ds.node[child]
    IN  SetNode(ds, parent,
          [p EXCEPT !.all_files = @ \o c.all_files,
                    !.function_names = @ \cup c.function_names,
                    !.metrics = [m \in MetricsToInclude |-> p.metrics[m] \o c.metrics[m]]])

\* Mutant: the function names of the child are not handed up
aggregate_child_to_parent_without_names(ds, parent, child) ==
    LET p == ds.node[parent]
        c == ds.node[child]
    IN  SetNode(ds, parent,
          [p EXCEPT !.all_files = @ \o c.direct_files,
                    !.metrics = [m \in MetricsToInclude |-> p.metrics[m] \o c.metrics[m]]])

aggregate_child_to_parent(ds, parent, child) ==
    LET p == ds.node[parent]
        c == ds.node[child]
    IN  SetNode(ds, parent,
          [p EXCEPT !.all_files = @ \o c.direct_files,
                    !.function_names = @ \cup c.function_names,
                    !.metrics = [m \in MetricsToInclude |-> p.metrics[m] \o c.metrics[m]]])

\* The directories the while loop visits: every proper ancestor, nearest first,
\* up to the root (where current = current.parent ends the loop)
Ancestors(dir_path) ==
    [i \in 1..Len(dir_path) |-> SubSeq(dir_path, 1, Len(dir_path) - i)]

\* ensure_parent_exists for every directory of the walk
EnsureAll(ds, dirs) ==
    LET missing == SelectSeq(dirs, LAMBDA d : ~ HasDir(ds, d))
    IN  [keys |-> ds.keys \o missing,
         node |-> [k \in (DOMAIN ds.node) \cup Range(missing) |->
                       IF k \in DOMAIN ds.node THEN ds.node[k] ELSE EmptyNode]]

\* The loop body touches one distinct parent per iteration and never the
\* child, so the iterations are applied side by side
propagate_stats_to_parents(ds, dir_path) ==
    LET ancs == Ancestors(dir_path)
        e    == EnsureAll(ds, ancs)
    IN  [e EXCEPT !.node = [k \in DOMAIN e.node |->
            IF k \in Range(ancs)
            THEN aggregate_child_to_parent(e, k, dir_path).node[k]
            ELSE e.node[k]]]

MaxLen(keys) ==
    IF keys = <<>> THEN 0
    ELSE CHOOSE n \in {Len(keys[i]) : i \in 1..Len(keys)} :
            \A i \in 1..Len(keys) : Len(keys[i]) <= n

RECURSIVE SortedFrom(_, _)
SortedFrom(keys, n) ==
    LET here == SelectSeq(keys, LAMBDA k : Len(k) = n)
    IN  IF n = 0 THEN here ELSE here \o SortedFrom(keys, n - 1)

\* sorted(keys, key=lambda p: len(p.parts), reverse=True): stable, deepest first
SortedDirs(keys) == SortedFrom(keys, MaxLen(keys))

RECURSIVE PropagateAll(_, _)
PropagateAll(ds, dirs) ==
    IF dirs = <<>> THEN ds
    ELSE PropagateAll(propagate_stats_to_parents(ds, dirs[1]), Tail(dirs))

\* Mutant: the direct files are not added at the end
finalize_all_files_skipped(ds) == ds

finalize_all_files(ds) ==
    [ds EXCEPT !.node = [k \in DOMAIN ds.node |->
        [ds.node[k] EXCEPT !.all_files = @ \o ds.node[k].direct_files]]]

aggregate_directory_tree_upward(ds) ==
    finalize_all_files(PropagateAll(ds, SortedDirs(ds.keys)))

(***************************************************************************)
(* stats_utils helpers (module not part of the available sources)          *)
(***************************************************************************)
RECURSIVE DedupFrom(_, _)
DedupFrom(fs, seen) ==
    IF fs = <<>> THEN <<>>
    ELSE IF fs[1].file_path \in seen THEN DedupFrom(Tail(fs), seen)
    ELSE <<fs[1]>> \o DedupFrom(Tail(fs), seen \cup {fs[1].file_path})

\* De-duplication keyed on file identity, first occurrence kept
remove_duplicate_files(fs) == DedupFrom(fs, {})

\* (rel_path, depth) of a directory under the base; None when not under it
calculate_relative_depth(dir_path, common_base) ==
    IF IsPrefix(common_base, dir_path)
    THEN LET rel == SubSeq(dir_path, Len(common_base) + 1, Len(dir_path))
         IN  <<rel, Len(rel)>>
    ELSE <<None, 0>>

\* The deepest directory that contains every report's parent directory
find_common_base_directory(rs) ==
    LET parents == {Parent(rs[i].file_path) : i \in 1..Len(rs)}
        common  == {p \in UNION {{SubSeq(q, 1, k) : k \in 0..Len(q)} : q \in parents} :
                       \A q \in parents : IsPrefix(p, q)}
    IN  CHOOSE p \in common : \A q \in common : Len(q) <= Len(p)

(***************************************************************************)
(* Result construction: stats_collection.py                                *)
(***************************************************************************)
\* Mutant: the depth test lets the boundary depth through
should_include_directory_inclusive(data, dir_path, common_base, effective_depth) ==
    /\ data.all_files # <<>>
    /\ calculate_relative_depth(dir_path, common_base)[1] # None
    /\ ~ (calculate_relative_depth(dir_path, common_base)[2] > effective_depth)

should_include_directory(data, dir_path, common_base, effective_depth) ==
    /\ data.all_files # <<>>
    /\ calculate_relative_depth(dir_path, common_base)[1] # None
    /\ ~ (calculate_relative_depth(dir_path, common_base)[2] >= effective_depth)

build_base_directory_result(data, unique_files) ==
    [file_count |-> Len(unique_files),
     function_count |-> Cardinality(data.function_names)]

\* statistics.mean over a non-empty list, kept as the exact fraction sum/n
Mean(values) == [sum |-> SumSeq(values), n |-> Len(values)]

\* Stands for an absent avg_<metric> key
NoAverage == [sum |-> 0, n |-> 0]

\* avg_<metric> for every metric that has values
add_metric_statistics_to_result(metrics, unique_files) ==
    [m \in MetricsToInclude |->
        IF metrics[m] # <<>> THEN Mean(Take(metrics[m], Len(unique_files))) ELSE NoAverage]

build_directory_results(ds, common_base, effective_depth) ==
    LET included == {d \in Range(ds.keys) :
                        should_include_directory(ds.node[d], d, common_base, effective_depth)}
        rel(d)   == calculate_relative_depth(d, common_base)[1]
    IN  [k \in {rel(d) : d \in included} |->
            LET d            == common_base \o k
                data         == ds.node[d]
                unique_files == remove_duplicate_files(data.all_files)
            IN  [base |-> build_base_directory_result(data, unique_files),
                 avg  |-> add_metric_statistics_to_result(data.metrics, unique_files)]]

EffectiveDepth(d) == IF d = 0 THEN MAX_DEPTH ELSE d

(***************************************************************************)
(* Rollup specification: one call of collect_directory_stats               *)
(***************************************************************************)
IdleRollup ==
    /\ reports = <<>> /\ depth = 0 /\ dir_stats = EmptyDirStats /\ results = <<>>

IdleModules == markers = {} /\ module_stats = <<>>

IdleCheck == check_in = None /\ check_out = None

IdleCollect == cli = None /\ collected = None

IdleAggregator == agg = None /\ calls = <<>> /\ summary = None

IdleHook == hook = None

IdleGenerate == gen = None

IdleBridge == bridge = None

IdleOthers == IdleHook /\ IdleGenerate /\ IdleBridge

InitRollup ==
    /\ pc = "start"
    /\ reports \in UNION {ReportLists(n) : n \in 0..MaxReports}
    /\ depth \in DepthArgs
    /\ dir_stats = EmptyDirStats
    /\ results = <<>>
    /\ IdleModules /\ IdleCheck /\ IdleCollect /\ IdleAggregator /\ IdleOthers

\* collect_directory_stats with no reports: returns {} before building anything
CollectDirectoryStatsEmpty ==
    /\ pc = "start"
    /\ reports = <<>>
    /\ pc' = "rolled_up"
    /\ results' = <<>>
    /\ UNCHANGED <<reports, depth, dir_stats, markers, module_stats,
                   check_in, check_out, cli, collected, agg, calls, summary,
                   hook, gen, bridge>>

CollectDirectoryStats ==
    /\ pc = "start"
    /\ reports # <<>>
    /\ LET ds == aggregate_directory_tree_upward(build_directory_tree_structure(reports))
       IN  /\ dir_stats' = ds
           /\ results' = build_directory_results(ds, find_common_base_directory(reports),
                                                 EffectiveDepth(depth))
    /\ pc' = "rolled_up"
    /\ UNCHANGED <<reports, depth, markers, module_stats,
                   check_in, check_out, cli, collected, agg, calls, summary,
                   hook, gen, bridge>>

NextRollup == CollectDirectoryStats \/ CollectDirectoryStatsEmpty

SpecRollup == InitRollup /\ [][NextRollup]_vars

(***************************************************************************)
(* Rollup claims                                                           *)
(***************************************************************************)
RolledUp == pc = "rolled_up" /\ reports # <<>>

CommonBase == find_common_base_directory(reports)

\* Indices of the reports located in directory d or anywhere below it
SubtreeReports(d) == {i \in 1..Len(reports) : IsPrefix(d, Parent(reports[i].file_path))}

\* Every measurement of metric m of every report of the subtree, once each
SubtreeValues(d, m) ==
    FlattenSeqs([i \in 1..Len(reports) |->
        IF i \in SubtreeReports(d) THEN MetricValues(reports[i].metrics, m) ELSE <<>>])

\* C1: every directory at depth 0 under the base directory is in the result
\* and its file_count is the number of distinct files anywhere in its subtree.
C1_RollupConservation ==
    RolledUp =>
        /\ <<>> \in DOMAIN results
        /\ \A k \in DOMAIN results :
              Len(k) = 0 =>
                 results[k].base.file_count = Cardinality(SubtreeReports(CommonBase \o k))

\* A root holding all three files, spread over nested directories two levels deep
C1_Witness ==
    /\ RolledUp
    /\ Len(reports) = 3
    /\ CommonBase = <<"p", "a">>
    /\ \E i \in 1..3 : Parent(reports[i].file_path) = <<"p", "a", "b", "c">>
    /\ \E i \in 1..3 : Parent(reports[i].file_path) = <<"p", "a", "b">>
    /\ results[<<>>].base.file_count = 3

\* C2: for every directory of the result and every requested metric, the
\* reported average is the mean of that metric's values over the distinct
\* files of the subtree, each measurement counted exactly once.
C2_AverageOverSubtree ==
    RolledUp =>
        \A k \in DOMAIN results : \A m \in MetricsToInclude :
            LET want == SubtreeValues(CommonBase \o k, m)
                got  == results[k].avg[m]
            IN  IF want = <<>> THEN got = NoAverage
                ELSE /\ got # NoAverage
                     /\ got.sum * Len(want) = SumSeq(want) * got.n

\* Directories that have a report in their subtree, at or below the base
DirsWithFiles ==
    {d \in UNION {{SubSeq(q, 1, j) : j \in 0..Len(q)} :
                     q \in {Parent(reports[i].file_path) : i \in 1..Len(reports)}} :
        IsPrefix(CommonBase, d)}

RelDepth(d) == Len(d) - Len(CommonBase)

C9_CapReached ==
    /\ RolledUp
    /\ depth = 0
    /\ CommonBase = <<"p", "a">>
    /\ [i \in 1..(MAX_DEPTH - 1) |-> "n"] \in DOMAIN results
    /\ [i \in 1..MAX_DEPTH |-> "n"] \notin DOMAIN results

(***************************************************************************)
(* Module grouping: stats_collection.py                                    *)
(***************************************************************************)
MaxModuleReports == 2

\* Directories of the package tree p/q/a/b/c; any of them may hold __init__.py
ModuleDirs == {SubSeq(<<"p", "q", "a", "b", "c">>, 1, k) : k \in 1..5}

ModuleReportLists(n) ==
    { [i \in 1..n |-> [file_path |-> ds[i] \o <<FileNames[i]>>, metrics |-> ms[i]]] :
        ds \in [1..n -> ModuleDirs], ms \in [1..n -> MetricProfiles] }

\* (current_path / "__init__.py").exists()
HasInit(fs, d) == d \in fs

\* ".".join(parts)
RECURSIVE DotJoin(_)
DotJoin(parts) ==
    IF parts = <<>> THEN ""
    ELSE IF Len(parts) = 1 THEN parts[1]
    ELSE parts[1] \o "." \o DotJoin(Tail(parts))

\* Mutant: a directory without __init__.py is skipped instead of ending the walk
RECURSIVE ModulePartsSkipping(_, _)
ModulePartsSkipping(fs, current_path) ==
    IF current_path = Parent(current_path) THEN <<>>
    ELSE IF HasInit(fs, current_path)
         THEN Append(ModulePartsSkipping(fs, Parent(current_path)), Name(current_path))
         ELSE ModulePartsSkipping(fs, Parent(current_path))

\* The while loop of determine_module_name: module_parts.insert(0, name) while
\* the directory holds __init__.py, break at the first one that does not
RECURSIVE ModuleParts(_, _)
ModuleParts(fs, current_path) ==
    IF current_path = Parent(current_path) THEN <<>>
    ELSE IF HasInit(fs, current_path)
         THEN Append(ModuleParts(fs, Parent(current_path)), Name(current_path))
         ELSE <<>>

\* Mutant: a file outside every package gets the joined, empty name
determine_module_name_joined(fs, report) ==
    DotJoin(ModuleParts(fs, Parent(report.file_path)))

determine_module_name(fs, report) ==
    LET module_parts == ModuleParts(fs, Parent(report.file_path))
    IN  IF module_parts # <<>> THEN DotJoin(module_parts) ELSE "<root>"

EmptyModule == [files |-> <<>>, function_names |-> {},
                metrics |-> [m \in MetricsToInclude |-> <<>>]]

AddReportToModule(fs, ms, r) ==
    LET name == determine_module_name(fs, r)
        old  == IF name \in DOMAIN ms THEN ms[name] ELSE EmptyModule
        new  == [old EXCEPT !.files = Append(@, r),
                            !.function_names = @ \cup ReportFunctionNames(r),
                            !.metrics = [m \in MetricsToInclude |->
                                           old.metrics[m] \o MetricValues(r.metrics, m)]]
    IN  [k \in (DOMAIN ms) \cup {name} |-> IF k = name THEN new ELSE ms[k]]

RECURSIVE GroupFrom(_, _, _)
GroupFrom(fs, ms, rs) ==
    IF rs = <<>> THEN ms ELSE GroupFrom(fs, AddReportToModule(fs, ms, rs[1]), Tail(rs))

group_reports_by_module(fs, rs) == GroupFrom(fs, <<>>, rs)

build_base_module_result(data) ==
    [file_count |-> Len(data.files),
     function_count |-> Cardinality(data.function_names)]

\* avg_<metric> for every metric that has values
add_module_metric_statistics(metrics) ==
    [m \in MetricsToInclude |->
        IF metrics[m] # <<>> THEN Mean(metrics[m]) ELSE NoAverage]

calculate_module_statistics(ms) ==
    [k \in DOMAIN ms |->
        [base |-> build_base_module_result(ms[k]),
         avg |-> add_module_metric_statistics(ms[k].metrics)]]

InitModules ==
    /\ pc = "start"
    /\ reports \in UNION {ModuleReportLists(n) : n \in 1..MaxModuleReports}
    /\ markers \in SUBSET ModuleDirs
    /\ module_stats = <<>>
    /\ depth = 0 /\ dir_stats = EmptyDirStats /\ results = <<>>
    /\ IdleCheck /\ IdleCollect /\ IdleAggregator /\ IdleOthers

GroupReportsByModule ==
    /\ pc = "start"
    /\ module_stats' = group_reports_by_module(markers, reports)
    /\ results' = calculate_module_statistics(module_stats')
    /\ pc' = "grouped"
    /\ UNCHANGED <<reports, depth, dir_stats, markers,
                   check_in, check_out, cli, collected, agg, calls, summary,
                   hook, gen, bridge>>

NextModules == GroupReportsByModule

SpecModules == InitModules /\ [][NextModules]_vars

\* The number of consecutive directories holding __init__.py, counted from the
\* file's own directory upward
MarkedLevels(dir) ==
    CHOOSE n \in 0..Len(dir) :
        /\ \A l \in (Len(dir) - n + 1)..Len(dir) : SubSeq(dir, 1, l) \in markers
        /\ (n = Len(dir) \/ SubSeq(dir, 1, Len(dir) - n) \notin markers)

\* C10: a file three levels below the topmost directory of its package-marker
\* chain is grouped under the dotted path of exactly those three marker
\* directories; directories above the chain never appear in the key.
C10_ModuleBoundary ==
    pc = "grouped" =>
        \A i \in 1..Len(reports) :
            LET dir == Parent(reports[i].file_path)
                n   == Len(dir)
            IN  MarkedLevels(dir) = 3 =>
                   LET key == dir[n - 2] \o "." \o dir[n - 1] \o "." \o dir[n]
                   IN  /\ key \in DOMAIN module_stats
                       /\ reports[i] \in Range(module_stats[key].files)
                       /\ \A k \in DOMAIN module_stats :
                             k # key => reports[i] \notin Range(module_stats[k].files)

\* p/q/a/b/c/f1.py with a, b, c marked, q unmarked and p marked again: key a.b.c
C10_Witness ==
    /\ pc = "grouped"
    /\ Parent(reports[1].file_path) = <<"p", "q", "a", "b", "c">>
    /\ markers = ModuleDirs \ {<<"p", "q">>}
    /\ "a.b.c" \in DOMAIN module_stats
    /\ reports[1] \in Range(module_stats["a.b.c"].files)

RECURSIVE SumFileCounts(_, _)
SumFileCounts(res, keys) ==
    IF keys = {} THEN 0
    ELSE LET k == CHOOSE x \in keys : TRUE
         IN  res[k].base.file_count + SumFileCounts(res, keys \ {k})

\* No directory above the file holds __init__.py
NoAncestorMarker(report) ==
    \A l \in 1..(Len(report.file_path) - 1) : SubSeq(report.file_path, 1, l) \notin markers

\* C11: a file with no ancestor package marker is grouped under '<root>';
\* every report is in exactly one module group, and the groups' file counts
\* sum to the number of reports.
C11_RootSentinelFlat ==
    pc = "grouped" =>
        /\ \A i \in 1..Len(reports) :
              /\ NoAncestorMarker(reports[i]) =>
                    /\ "<root>" \in DOMAIN module_stats
                    /\ reports[i] \in Range(module_stats["<root>"].files)
              /\ Cardinality({k \in DOMAIN module_stats :
                                \E j \in 1..Len(module_stats[k].files) :
                                    module_stats[k].files[j] = reports[i]}) = 1
        /\ DOMAIN results = DOMAIN module_stats
        /\ SumFileCounts(results, DOMAIN results) = Len(reports)

\* One file outside every package and one inside package c: two flat groups
C11_Witness ==
    /\ pc = "grouped"
    /\ Len(reports) = 2
    /\ NoAncestorMarker(reports[1])
    /\ DOMAIN results = {"<root>", "c"}
    /\ results["<root>"].base.file_count = 1
    /\ results["c"].base.file_count = 1

(***************************************************************************)
(* Violation checker: core/violations.py                                   *)
(* Values and thresholds are counted in hundredths (1000 stands for 10.0); *)
(* line number 0 stands for an absent line number.                         *)
(***************************************************************************)
ComparisonOperators == {"<", "<=", ">", ">=", "==", "!="}

CheckThresholds == {999, 1000, 1001}

CheckValues == 998..1002

CheckMetrics ==
    [metric_type : {"cyclomatic_complexity"}, value : CheckValues,
     file_path : {<<"p", "a", "f1.py">>}, line_number : {0, 7},
     function_name : {None, "f"}]

CheckConfigs ==
    [type : {"cyclomatic_complexity"}, threshold : CheckThresholds,
     comparison : ComparisonOperators, enabled : BOOLEAN]

\* Mutant: the <= rule also flags the boundary value itself
ViolatedBoundaryFlagged(comparison, value, threshold) ==
    CASE comparison = "<"  -> value >= threshold
      [] comparison = "<=" -> value >= threshold
      [] comparison = ">"  -> value <= threshold
      [] comparison = ">=" -> value < threshold
      [] comparison = "==" -> value # threshold
      [] comparison = "!=" -> value = threshold
      [] OTHER -> FALSE

\* The if/elif chain over ComparisonOperator
Violated(comparison, value, threshold) ==
    CASE comparison = "<"  -> value >= threshold
      [] comparison = "<=" -> value > threshold
      [] comparison = ">"  -> value <= threshold
      [] comparison = ">=" -> value < threshold
      [] comparison = "==" -> value # threshold
      [] comparison = "!=" -> value = threshold
      [] OTHER -> FALSE

\* An optional Violation: the empty tuple for None, else the one Violation
NoViolation == <<>>

\* Mutant: the enabled flag is not looked at
check_metric_violation_always(metric, config) ==
    IF Violated(config.comparison, metric.value, config.threshold)
    THEN << [file_path |-> metric.file_path,
          metric_type |-> metric.metric_type,
          value |-> metric.value,
          threshold |-> config.threshold,
          comparison |-> config.comparison,
          line_number |-> metric.line_number,
          function_name |-> metric.function_name] >>
    ELSE NoViolation

check_metric_violation(metric, config) ==
    IF ~ config.enabled THEN NoViolation
    ELSE IF Violated(config.comparison, metric.value, config.threshold)
    THEN << [file_path |-> metric.file_path,
          metric_type |-> metric.metric_type,
          value |-> metric.value,
          threshold |-> config.threshold,
          comparison |-> config.comparison,
          line_number |-> metric.line_number,
          function_name |-> metric.function_name] >>
    ELSE NoViolation

InitCheck ==
    /\ pc = "start"
    /\ check_in \in [metric : CheckMetrics, config : CheckConfigs]
    /\ check_out = None
    /\ IdleRollup /\ IdleModules /\ IdleCollect /\ IdleAggregator /\ IdleOthers

CheckMetricViolation ==
    /\ pc = "start"
    /\ check_out' = check_metric_violation(check_in.metric, check_in.config)
    /\ pc' = "checked"
    /\ UNCHANGED <<reports, depth, dir_stats, results, markers, module_stats,
                   check_in, cli, collected, agg, calls, summary,
                   hook, gen, bridge>>

NextCheck == CheckMetricViolation

SpecCheck == InitCheck /\ [][NextCheck]_vars

IsViolation(x) == x # NoViolation

\* C3: for an enabled rule the checker returns a Violation exactly when
\* "<" and v >= t, "<=" and v > t, ">" and v <= t, ">=" and v < t,
\* "==" and v # t, "!=" and v = t; in every other case it returns none.
C3_ViolationBoundary ==
    (pc = "checked" /\ check_in.config.enabled) =>
        LET v  == check_in.metric.value
            t  == check_in.config.threshold
            op == check_in.config.comparison
        IN  /\ IsViolation(check_out) <=>
                  \/ (op = "<"  /\ v >= t)
                  \/ (op = "<=" /\ v > t)
                  \/ (op = ">"  /\ v <= t)
                  \/ (op = ">=" /\ v < t)
                  \/ (op = "==" /\ v # t)
                  \/ (op = "!=" /\ v = t)
            /\ (op = "<=" /\ t = 1000 /\ v \in {999, 1000}) => ~ IsViolation(check_out)
            /\ (op = "<=" /\ t = 1000 /\ v = 1001) => IsViolation(check_out)

\* The boundary of a "<= 10" rule: the value 10.0 itself has been checked and passed
C3_Witness ==
    /\ pc = "checked"
    /\ check_in.config.enabled
    /\ check_in.config.comparison = "<="
    /\ check_in.config.threshold = 1000
    /\ check_in.metric.value = 1000
    /\ check_out = NoViolation

\* C18: for a rule whose enabled flag is false the checker returns none,
\* whatever the value, the threshold and the comparison operator are.
C18_DisabledRuleInert ==
    (pc = "checked" /\ ~ check_in.config.enabled) => check_out = NoViolation

\* A disabled rule whose comparison the value fails yields no Violation
C18_Witness ==
    /\ pc = "checked"
    /\ ~ check_in.config.enabled
    /\ Violated(check_in.config.comparison, check_in.metric.value, check_in.config.threshold)
    /\ check_out = NoViolation

(***************************************************************************)
(* Language detection: code_cop/core/detector.py                           *)
(* A file is [dirs, stem, suffix]; dirs are absolute directory segments.   *)
(***************************************************************************)
File(dirs, stem, suffix) == [dirs |-> dirs, stem |-> stem, suffix |-> suffix]

\* str.lower() on the suffixes in use
Lower(suffix) ==
    CASE suffix = ".PY" -> ".py"
      [] suffix = ".JS" -> ".js"
      [] OTHER -> suffix

PythonSuffixes == {".py", ".pyw", ".pyi", ".ipynb"}

JavascriptSuffixes == {".js", ".mjs", ".cjs", ".jsx"}

TypescriptSuffixes == {".ts", ".tsx", ".mts", ".cts"}

\* EXTENSION_MAP.get(extension, Language.UNKNOWN)
EXTENSION_MAP(extension) ==
    CASE extension \in PythonSuffixes -> "python"
      [] extension \in JavascriptSuffixes -> "javascript"
      [] extension \in TypescriptSuffixes -> "typescript"
      [] OTHER -> "unknown"

\* Gitwildmatch patterns in use: "name/" (a directory anywhere), "*.ext"
\* (a file suffix) and "dir/file" (one path); neg marks a leading "!"
DirPattern(name) == [kind |-> "dir", neg |-> FALSE, dirs |-> <<name>>, stem |-> "", suffix |-> ""]

ExtPattern(suffix) == [kind |-> "ext", neg |-> FALSE, dirs |-> <<>>, stem |-> "", suffix |-> suffix]

PathPattern(dirs, stem, suffix) ==
    [kind |-> "path", neg |-> FALSE, dirs |-> dirs, stem |-> stem, suffix |-> suffix]

Negated(pat) == [pat EXCEPT !.neg = TRUE]

\* A comment or blank line of a .gitignore file
CommentLine == [kind |-> "comment", neg |-> FALSE, dirs |-> <<>>, stem |-> "", suffix |-> ""]

PatternMatches(pat, path_str) ==
    CASE pat.kind = "dir"  -> pat.dirs[1] \in Range(path_str.dirs)
      [] pat.kind = "ext"  -> path_str.suffix = pat.suffix
      [] pat.kind = "path" -> /\ path_str.dirs = pat.dirs
                              /\ path_str.stem = pat.stem
                              /\ path_str.suffix = pat.suffix
      [] OTHER -> FALSE

\* PathSpec.match_file: the last pattern that matches decides
MatchFile(patterns, path_str) ==
    LET hits == {i \in 1..Len(patterns) : PatternMatches(patterns[i], path_str)}
    IN  /\ hits # {}
        /\ ~ patterns[CHOOSE i \in hits : \A j \in hits : j <= i].neg

\* Mutant: a path outside the base keeps its directories
PathStrWithDirs(file_path, base) ==
    IF IsPrefix(base, file_path.dirs)
    THEN [file_path EXCEPT !.dirs = SubSeq(@, Len(base) + 1, Len(@))]
    ELSE file_path

\* file_path.relative_to(base), or only the file name for a path outside it
PathStr(file_path, base) ==
    IF IsPrefix(base, file_path.dirs)
    THEN [file_path EXCEPT !.dirs = SubSeq(@, Len(base) + 1, Len(@))]
    ELSE [file_path EXCEPT !.dirs = <<>>]

\* The force-include test of the detector built with include_patterns
MatchesIncludePatterns(detector, path_str) ==
    /\ detector.include_patterns # <<>>
    /\ MatchFile(detector.include_patterns, path_str)

\* A detector as its constructor leaves it
LanguageDetector(ignore_patterns, include_patterns, base_dir) ==
    [ignore_patterns |-> ignore_patterns,
     include_patterns |-> include_patterns,
     base_dir |-> base_dir,
     _pathspec |-> [built |-> FALSE, patterns |-> <<>>]]

\* Mutant: a cached PathSpec is returned without its patterns
pathspec_stale(detector) ==
    IF ~ detector._pathspec.built THEN detector.ignore_patterns ELSE <<>>

\* The pathspec property: compiled from ignore_patterns once, then cached
pathspec(detector) ==
    IF ~ detector._pathspec.built THEN detector.ignore_patterns
    ELSE detector._pathspec.patterns

should_ignore(detector, file_path) ==
    IF detector.ignore_patterns = <<>> THEN FALSE
    ELSE LET path_str == PathStr(file_path, detector.base_dir)
         IN  IF MatchesIncludePatterns(detector, path_str) THEN FALSE
             ELSE MatchFile(pathspec(detector), path_str)

\* The detector after one should_ignore call: the PathSpec is cached
AfterShouldIgnore(detector) ==
    IF detector.ignore_patterns = <<>> THEN detector
    ELSE [detector EXCEPT !._pathspec = [built |-> TRUE, patterns |-> pathspec(detector)]]

\* "ignored" stands for the None that detect_language returns
detect_language(detector, file_path) ==
    IF should_ignore(detector, file_path) THEN "ignored"
    ELSE EXTENSION_MAP(Lower(file_path.suffix))

\* add_gitignore: stripped, non-empty, non-comment lines extend ignore_patterns
add_gitignore(detector, lines) ==
    [detector EXCEPT
        !.ignore_patterns = @ \o SelectSeq(lines, LAMBDA l : l.kind # "comment"),
        !._pathspec = [built |-> FALSE, patterns |-> <<>>]]

(***************************************************************************)
(* Overrides: core/config_override.py                                      *)
(***************************************************************************)
RECURSIVE AppendNew(_, _)
AppendNew(patterns, more) ==
    IF more = <<>> THEN patterns
    ELSE AppendNew(IF more[1] \in Range(patterns) THEN patterns
                   ELSE Append(patterns, more[1]), Tail(more))

get_effective_ignore_patterns(override, base_patterns) ==
    IF override.force_analyze THEN <<>>
    ELSE AppendNew(base_patterns, override.exclude_patterns)

should_force_include(override, path_str) ==
    IF override.force_analyze THEN TRUE
    ELSE IF override.include_patterns = <<>> THEN FALSE
    ELSE MatchFile(override.include_patterns, path_str)

has_overrides(override) ==
    \/ override.include_patterns # <<>>
    \/ override.exclude_patterns # <<>>
    \/ DOMAIN override.threshold_overrides # {}
    \/ override.disable_gitignore
    \/ override.force_analyze

\* The members of MetricType, which are the fields of MetricThresholds
MetricTypes ==
    {"cyclomatic_complexity", "cognitive_complexity", "maintainability_index",
     "halstead_volume", "halstead_difficulty", "halstead_effort", "halstead_time",
     "halstead_bugs", "lines_of_code", "logical_lines_of_code",
     "source_lines_of_code", "comment_lines", "blank_lines"}

Constraint(integer, ge, bounded, le) ==
    [integer |-> integer, ge |-> ge, bounded |-> bounded, le |-> le]

\* The constrained types of core/metric_models.py, in hundredths
MetricThresholds(metric_type) ==
    CASE metric_type = "cyclomatic_complexity" -> Constraint(TRUE, 100, TRUE, 5000)
      [] metric_type = "cognitive_complexity"  -> Constraint(TRUE, 100, TRUE, 10000)
      [] metric_type = "maintainability_index" -> Constraint(FALSE, 0, TRUE, 10000)
      [] metric_type = "halstead_volume"       -> Constraint(FALSE, 0, TRUE, 10000000)
      [] metric_type = "halstead_difficulty"   -> Constraint(FALSE, 0, TRUE, 10000)
      [] metric_type = "halstead_effort"       -> Constraint(FALSE, 0, TRUE, 100000000)
      [] metric_type \in {"halstead_time", "halstead_bugs"}
                                               -> Constraint(FALSE, 0, FALSE, 0)
      [] OTHER                                 -> Constraint(TRUE, 0, FALSE, 0)

\* Validation on assignment: an int field takes a float without a fraction
ValidatesAssignment(metric_type, value) ==
    LET f == MetricThresholds(metric_type)
    IN  /\ f.integer => value % 100 = 0
        /\ value >= f.ge
        /\ f.bounded => value <= f.le

\* A rejected or accepted override: error stands for the ValueError raised
Rejected(override) == [error |-> TRUE, override |-> override]

Accepted(override) == [error |-> FALSE, override |-> override]

\* Mutant: the value is stored without validation
set_threshold_unvalidated(override, metric_type, value) ==
    IF metric_type \notin MetricTypes THEN Rejected(override)
    ELSE Accepted([override EXCEPT !.threshold_overrides =
            [t \in DOMAIN @ \cup {metric_type} |-> IF t = metric_type THEN value ELSE @[t]]])

set_threshold(override, metric_type, value) ==
    IF metric_type \notin MetricTypes THEN Rejected(override)
    ELSE IF ~ ValidatesAssignment(metric_type, value) THEN Rejected(override)
    ELSE Accepted([override EXCEPT !.threshold_overrides =
            [t \in DOMAIN @ \cup {metric_type} |-> IF t = metric_type THEN value ELSE @[t]]])

\* A threshold string "metric_type=value" as what split('=', 1), strip() and
\* float() find in it: whether it has '=', the stripped name, whether the
\* value text is a number, and that number in hundredths
ThresholdString(has_eq, metric_type, numeric, value) ==
    [has_eq |-> has_eq, metric_type |-> metric_type, numeric |-> numeric, value |-> value]

parse_threshold_string(override, threshold_str) ==
    IF ~ threshold_str.has_eq THEN Rejected(override)
    ELSE IF ~ threshold_str.numeric THEN Rejected(override)
    ELSE set_threshold(override, threshold_str.metric_type, threshold_str.value)

\* The defaults field that a metric type is mapped to, None for the others
field_map(metric_type) ==
    CASE metric_type = "cyclomatic_complexity" -> "max_cyclomatic_complexity"
      [] metric_type = "cognitive_complexity"  -> "max_cognitive_complexity"
      [] metric_type = "maintainability_index" -> "min_maintainability_index"
      [] metric_type = "halstead_volume"       -> "max_halstead_volume"
      [] metric_type = "halstead_difficulty"   -> "max_halstead_difficulty"
      [] metric_type = "halstead_effort"       -> "max_halstead_effort"
      [] OTHER -> None

MergeDefaults(threshold_overrides, defaults) ==
    LET fields == {field_map(t) : t \in DOMAIN threshold_overrides} \ {None}
    IN  [f \in DOMAIN defaults \cup fields |->
            IF f \in fields
            THEN threshold_overrides[CHOOSE t \in DOMAIN threshold_overrides : field_map(t) = f]
            ELSE defaults[f]]

\* Mutant: an overridden metric type that has no rule in the list gets one
MergeMetricsAdding(threshold_overrides, metrics) ==
    [j \in 1..Len(metrics) |->
        IF metrics[j].type \in DOMAIN threshold_overrides
        THEN [metrics[j] EXCEPT !.threshold = threshold_overrides[metrics[j].type]]
        ELSE metrics[j]]
    \o (LET missing == DOMAIN threshold_overrides \ {metrics[j].type : j \in 1..Len(metrics)}
        IN  IF missing = {} THEN <<>>
            ELSE LET t == CHOOSE x \in missing : TRUE
                 IN  << [type |-> t, threshold |-> threshold_overrides[t],
                         comparison |-> "<=", enabled |-> TRUE] >>)

MergeMetrics(threshold_overrides, metrics) ==
    [j \in 1..Len(metrics) |->
        IF metrics[j].type \in DOMAIN threshold_overrides
        THEN [metrics[j] EXCEPT !.threshold = threshold_overrides[metrics[j].type]]
        ELSE metrics[j]]

MergeLanguages(threshold_overrides, languages) ==
    [i \in 1..Len(languages) |->
        [languages[i] EXCEPT !.metrics = MergeMetrics(threshold_overrides, @)]]

merge_with_config_dict(override, config_dict) ==
    LET merged == [config_dict EXCEPT
            !.use_gitignore = IF override.disable_gitignore THEN FALSE ELSE @,
            !.ignore_patterns = get_effective_ignore_patterns(override, @)]
    IN  IF DOMAIN override.threshold_overrides # {}
        THEN [merged EXCEPT
                !.defaults = MergeDefaults(override.threshold_overrides, @),
                !.languages = MergeLanguages(override.threshold_overrides, @)]
        ELSE merged

\* Mutant: the merge changes the dictionary it was given, not a copy
merge_in_place(override, config_dict) ==
    [config_dict |-> merge_with_config_dict(override, config_dict),
     override |-> override,
     merged |-> merge_with_config_dict(override, config_dict)]

\* The objects after a call of merge_with_config_dict: every change is made
\* to merged, the deep copy; get_effective_ignore_patterns works on a copy
\* of the list it is given and reads the override
merge_on_deep_copy(override, config_dict) ==
    [config_dict |-> config_dict,
     override |-> override,
     merged |-> merge_with_config_dict(override, config_dict)]

\* AntipastaConfig.apply_overrides: the merged dictionary as a configuration
apply_overrides(cfg, override) == merge_with_config_dict(override, cfg)

(***************************************************************************)
(* File collection of the metrics command: cli/metrics.py                  *)
(***************************************************************************)
Cwd == <<"w">>

\* The files below the working directory
DirectoryTree ==
    { File(<<"w", "src">>, "m", ".py"),
      File(<<"w", "build">>, "g", ".py"),
      File(<<"w", "build">>, "keep", ".py"),
      File(<<"w", "web">>, "u", ".js"),
      File(<<"w", "doc">>, "r", ".txt") }

OutsideFile == File(<<"x", "build">>, "h", ".py")

GlobSuffixes == {".py", ".js", ".ts", ".jsx", ".tsx"}

\* directory.glob("**/*.py") and the four other patterns
Glob(directory) ==
    {f \in DirectoryTree : IsPrefix(directory, f.dirs) /\ f.suffix \in GlobSuffixes}

KeepPath == PathPattern(<<"build">>, "keep", ".py")

ConfigIgnoreChoices ==
    { <<>>, <<DirPattern("build")>>, <<DirPattern("build"), Negated(KeepPath)>> }

GitignoreChoices ==
    { [exists |-> FALSE, lines |-> <<>>],
      [exists |-> TRUE, lines |-> <<CommentLine, ExtPattern(".js")>>],
      [exists |-> TRUE, lines |-> <<DirPattern("build")>>] }

IncludeChoices == { <<>>, <<KeepPath>>, <<DirPattern("build")>> }

ExcludeChoices == { <<>>, <<ExtPattern(".js")>> }

FilesChoices == { <<>>, <<OutsideFile>>, <<File(<<"w", "build">>, "g", ".py")>> }

DirectoryChoices == { None, Cwd }

\* The loop over the threshold strings; it ends at the first ValueError
RECURSIVE _parse_threshold_overrides_into_override(_, _)
_parse_threshold_overrides_into_override(override, threshold) ==
    IF threshold = <<>> THEN Accepted(override)
    ELSE LET r == parse_threshold_string(override, Head(threshold))
         IN  IF r.error THEN r
             ELSE _parse_threshold_overrides_into_override(r.override, Tail(threshold))

_create_and_configure_override(c) ==
    _parse_threshold_overrides_into_override(
        [include_patterns |-> c.include_pattern,
         exclude_patterns |-> c.exclude_pattern,
         disable_gitignore |-> c.no_gitignore,
         force_analyze |-> c.force_analyze,
         threshold_overrides |-> <<>>],
        c.threshold)

_apply_overrides_to_configuration(cfg, override) ==
    IF has_overrides(override) THEN apply_overrides(cfg, override) ELSE cfg

\* The include_patterns argument that _collect_files passes to the detector
DetectorIncludeNone(override) == <<>>

DetectorIncludePatterns(override) ==
    IF override.include_patterns # <<>> THEN override.include_patterns ELSE <<>>

CollectDetector(directory, config, override, gitignore) ==
    LET base_dir == IF directory # None THEN directory ELSE Cwd
        detector == LanguageDetector(config.ignore_patterns,
                                     DetectorIncludePatterns(override), base_dir)
    IN  IF config.use_gitignore /\ gitignore.exists
        THEN add_gitignore(detector, gitignore.lines)
        ELSE detector

_collect_files(files, directory, config, override, gitignore) ==
    LET detector == CollectDetector(directory, config, override, gitignore)
    IN  Range(files) \cup
        (IF directory # None
         THEN {f \in Glob(directory) : ~ should_ignore(detector, f)}
         ELSE {})

_determine_files_to_analyze(files, directory, cfg, override, gitignore) ==
    LET file_paths == _collect_files(files, directory, cfg, override, gitignore)
    IN  IF file_paths = {} /\ files = <<>> /\ directory = None
        THEN _collect_files(<<>>, Cwd, cfg, override, gitignore)
        ELSE file_paths

(***************************************************************************)
(* The aggregator: code_cop/core/aggregator.py                             *)
(***************************************************************************)
MaxPaths == 2

MaxCalls == 2

\* Candidate paths, in the order a sort of their path strings gives
PathPool ==
    << File(<<"w", "a">>, "x", ".py"),
       File(<<"w", "a">>, "y", ".py"),
       File(<<"w", "build">>, "g", ".py"),
       File(<<"w", "doc">>, "r", ".txt"),
       File(<<"w", "web">>, "u", ".js"),
       OutsideFile >>

\* Lists of distinct paths, at most MaxPaths long
PathLists ==
    UNION { {q \in [1..n -> Range(PathPool)] : \A i, j \in 1..n : i # j => q[i] # q[j]} :
            n \in 1..MaxPaths }

\* What runner.analyze does on a file: return metrics, return an error
\* field, or raise
Outcomes == {"ok", "error", "raise"}

MetricResult(file_path, metric_type, value, function_name) ==
    [metric_type |-> metric_type, value |-> value, file_path |-> file_path,
     line_number |-> 7, function_name |-> function_name]

\* The measurements of each file's content, in hundredths
Measurements(file_path) ==
    CASE file_path.stem = "x" ->
            << MetricResult(file_path, "cyclomatic_complexity", 300, "f") >>
      [] file_path.stem = "y" ->
            << MetricResult(file_path, "cyclomatic_complexity", 1200, "g") >>
      [] OTHER ->
            << MetricResult(file_path, "cyclomatic_complexity", 1100, "h"),
               MetricResult(file_path, "maintainability_index", 4000, None) >>

\* runner.analyze for the outcomes that return
FileMetrics(file_path, outcome) ==
    IF outcome = "ok"
    THEN [file_path |-> file_path, metrics |-> Measurements(file_path), error |-> None]
    ELSE [file_path |-> file_path, metrics |-> <<>>, error |-> "analysis failed"]

DefaultsConfig ==
    [max_cyclomatic_complexity |-> 1000,
     min_maintainability_index |-> 5000,
     max_halstead_volume |-> 100000,
     max_halstead_difficulty |-> 1000,
     max_halstead_effort |-> 1000000,
     max_cognitive_complexity |-> 1500]

MetricConfig(type, threshold, comparison) ==
    [type |-> type, threshold |-> threshold, comparison |-> comparison, enabled |-> TRUE]

\* Two language lists; the Python one holds a disabled rule
TwoLanguages ==
    << [name |-> "python",
        metrics |-> << MetricConfig("cyclomatic_complexity", 1000, "<="),
                       [MetricConfig("maintainability_index", 5000, ">=")
                           EXCEPT !.enabled = FALSE] >>],
       [name |-> "javascript",
        metrics |-> << MetricConfig("cyclomatic_complexity", 1200, "<=") >>] >>

\* A Python list with two rules of one metric type, the stricter one first
DuplicateRules ==
    << [name |-> "python",
        metrics |-> << MetricConfig("cyclomatic_complexity", 200, "<="),
                       MetricConfig("cyclomatic_complexity", 2000, "<=") >>] >>

LanguagesChoices ==
    { <<>>,
      << [name |-> "python",
          metrics |-> << MetricConfig("cyclomatic_complexity", 1100, "<") >>] >>,
      TwoLanguages,
      DuplicateRules }

AggregatorIgnoreChoices == { <<>>, <<DirPattern("build")>>, <<ExtPattern(".py")>> }

AggregatorGitignoreChoices ==
    { [exists |-> FALSE, lines |-> <<>>],
      [exists |-> TRUE, lines |-> <<CommentLine, PathPattern(<<"a">>, "y", ".py")>>] }

\* config.get_language_config: the first entry of that name, <<>> for None
get_language_config(config, language) ==
    LET hits == {i \in 1..Len(config.languages) :
                    Lower(config.languages[i].name) = Lower(language)}
    IN  IF hits = {} THEN <<>>
        ELSE << config.languages[CHOOSE i \in hits : \A j \in hits : i <= j] >>

_create_default_language_config(config, language) ==
    [name |-> language,
     metrics |->
        IF language = "python"
        THEN << MetricConfig("cyclomatic_complexity",
                             config.defaults.max_cyclomatic_complexity, "<="),
                MetricConfig("maintainability_index",
                             config.defaults.min_maintainability_index, ">="),
                MetricConfig("halstead_volume",
                             config.defaults.max_halstead_volume, "<="),
                MetricConfig("halstead_difficulty",
                             config.defaults.max_halstead_difficulty, "<="),
                MetricConfig("halstead_effort",
                             config.defaults.max_halstead_effort, "<=") >>
        ELSE <<>>]

\* MetricAggregator.__init__
MetricAggregator(config, gitignore) ==
    LET detector == LanguageDetector(config.ignore_patterns, <<>>, Cwd)
    IN  [config |-> config,
         detector |-> IF config.use_gitignore /\ gitignore.exists
                      THEN add_gitignore(detector, gitignore.lines)
                      ELSE detector]

\* self.runners: only Python has a runner
Runners == {"python"}

\* Mutant: a file is put at the front of its language's list
AddToGroupFront(groups, language, file_path) ==
    IF \E i \in 1..Len(groups) : groups[i].language = language
    THEN [i \in 1..Len(groups) |->
            IF groups[i].language = language
            THEN [groups[i] EXCEPT !.files = <<file_path>> \o @]
            ELSE groups[i]]
    ELSE Append(groups, [language |-> language, files |-> <<file_path>>])

\* groups[language].append(file_path) on a dict that keeps insertion order
AddToGroup(groups, language, file_path) ==
    IF \E i \in 1..Len(groups) : groups[i].language = language
    THEN [i \in 1..Len(groups) |->
            IF groups[i].language = language
            THEN [groups[i] EXCEPT !.files = Append(@, file_path)]
            ELSE groups[i]]
    ELSE Append(groups, [language |-> language, files |-> <<file_path>>])

\* Mutant: files of unknown language are grouped as well
RECURSIVE GroupByLanguageKeepingUnknown(_, _, _)
GroupByLanguageKeepingUnknown(detector, file_paths, groups) ==
    IF file_paths = <<>> THEN [groups |-> groups, detector |-> detector]
    ELSE LET language == detect_language(detector, Head(file_paths))
         IN  GroupByLanguageKeepingUnknown(
                AfterShouldIgnore(detector), Tail(file_paths),
                IF language # "ignored"
                THEN AddToGroup(groups, language, Head(file_paths))
                ELSE groups)

RECURSIVE GroupByLanguageFrom(_, _, _)
GroupByLanguageFrom(detector, file_paths, groups) ==
    IF file_paths = <<>> THEN [groups |-> groups, detector |-> detector]
    ELSE LET language == detect_language(detector, Head(file_paths))
         IN  GroupByLanguageFrom(
                AfterShouldIgnore(detector), Tail(file_paths),
                IF language \notin {"ignored", "unknown"}
                THEN AddToGroup(groups, language, Head(file_paths))
                ELSE groups)

group_by_language(detector, file_paths) ==
    GroupByLanguageFrom(detector, file_paths, <<>>)

\* config_map[type]: a later configuration of a type replaces an earlier one
ConfigMap(metric_configs, type) ==
    LET hits == {i \in 1..Len(metric_configs) : metric_configs[i].type = type}
    IN  IF hits = {} THEN <<>>
        ELSE << metric_configs[CHOOSE i \in hits : \A j \in hits : j <= i] >>

_check_violations(file_metrics, metric_configs) ==
    FlattenSeqs([i \in 1..Len(file_metrics.metrics) |->
        LET metric == file_metrics.metrics[i]
            config == ConfigMap(metric_configs, metric.metric_type)
        IN  IF config = <<>> THEN <<>>
            ELSE check_metric_violation(metric, config[1])])

\* Mutant: the runner's error is not carried into the FileReport
_analyze_file_error_dropped(file_path, language, outcome, metric_configs) ==
    LET file_metrics == FileMetrics(file_path, outcome)
    IN  [file_path |-> file_path,
         language |-> language,
         metrics |-> file_metrics.metrics,
         violations |-> _check_violations(file_metrics, metric_configs),
         error |-> None]

_analyze_file(file_path, language, outcome, metric_configs) ==
    LET file_metrics == FileMetrics(file_path, outcome)
    IN  [file_path |-> file_path,
         language |-> language,
         metrics |-> file_metrics.metrics,
         violations |-> IF file_metrics.error = None
                        THEN _check_violations(file_metrics, metric_configs)
                        ELSE <<>>,
         error |-> file_metrics.error]

\* Mutant: no group is skipped, whether or not it has an available runner
FilesToAnalyzeAll(a, groups) ==
    FlattenSeqs([i \in 1..Len(groups) |->
        [j \in 1..Len(groups[i].files) |->
            [file_path |-> groups[i].files[j], language |-> groups[i].language]]])

\* The files of the groups that have an available runner, in loop order
FilesToAnalyze(a, groups) ==
    FlattenSeqs([i \in 1..Len(groups) |->
        IF groups[i].language \in Runners /\ a.available
        THEN [j \in 1..Len(groups[i].files) |->
                [file_path |-> groups[i].files[j], language |-> groups[i].language]]
        ELSE <<>>])

LanguageMetrics(config, language) ==
    LET lang_config == get_language_config(config, language)
    IN  IF lang_config = <<>>
        THEN _create_default_language_config(config, language).metrics
        ELSE lang_config[1].metrics

\* analyze_files: the call's outcome and the detector it leaves behind.
\* A raise of runner.analyze is not handled and ends the call.
analyze_files(a, file_paths) ==
    LET grouped == group_by_language(a.detector, file_paths)
        todo == FilesToAnalyze(a, grouped.groups)
        raised == \E i \in 1..Len(todo) : a.outcome[todo[i].file_path] = "raise"
    IN  [detector |-> grouped.detector,
         files_by_language |-> grouped.groups,
         result |->
            IF raised THEN [kind |-> "raised", reports |-> <<>>]
            ELSE [kind |-> "returned",
                  reports |-> [i \in 1..Len(todo) |->
                     _analyze_file(todo[i].file_path, todo[i].language,
                                   a.outcome[todo[i].file_path],
                                   LanguageMetrics(a.config, todo[i].language))]]]

InitAnalyze ==
    /\ pc = "start"
    /\ \E file_paths \in PathLists,
          languages \in LanguagesChoices,
          ignore_patterns \in AggregatorIgnoreChoices,
          gitignore \in AggregatorGitignoreChoices,
          available \in BOOLEAN :
          \E outcome \in [Range(file_paths) -> Outcomes] :
             LET config == [languages |-> languages,
                            ignore_patterns |-> ignore_patterns,
                            use_gitignore |-> TRUE,
                            defaults |-> DefaultsConfig]
                 a == MetricAggregator(config, gitignore)
             IN  agg = [config |-> a.config, detector |-> a.detector,
                        available |-> available, outcome |-> outcome,
                        file_paths |-> file_paths, files_by_language |-> <<>>]
    /\ calls = <<>>
    /\ summary = None
    /\ IdleRollup /\ IdleModules /\ IdleCheck /\ IdleCollect /\ IdleOthers

\* One call of analyze_files on the path list; files and configuration
\* stay as they are between calls
AnalyzeFiles ==
    /\ pc \in {"start", "called"}
    /\ Len(calls) < MaxCalls
    /\ LET r == analyze_files(agg, agg.file_paths)
       IN  /\ calls' = Append(calls, r.result)
           /\ agg' = [agg EXCEPT !.detector = r.detector,
                                 !.files_by_language = r.files_by_language]
    /\ pc' = "called"
    /\ UNCHANGED <<reports, depth, dir_stats, results, markers, module_stats,
                   check_in, check_out, cli, collected, summary,
                   hook, gen, bridge>>

AllViolations(rs) == FlattenSeqs([i \in 1..Len(rs) |-> rs[i].violations])

\* sum(r.violation_count for r in reports)
TotalViolations(rs) == SumSeq([i \in 1..Len(rs) |-> Len(rs[i].violations)])

\* The summary dictionary, with the value of its success entry given
Summary(rs, success) ==
    LET total_files == Len(rs)
        files_with_violations == Cardinality({i \in 1..Len(rs) : rs[i].violations # <<>>})
        total_violations == TotalViolations(rs)
        vs == AllViolations(rs)
        violations_by_type ==
            [t \in {vs[i].metric_type : i \in 1..Len(vs)} |->
                Cardinality({i \in 1..Len(vs) : vs[i].metric_type = t})]
        files_by_language ==
            [l \in {rs[i].language : i \in 1..Len(rs)} |->
                Cardinality({i \in 1..Len(rs) : rs[i].language = l})]
    IN  [total_files |-> total_files,
         files_with_violations |-> files_with_violations,
         total_violations |-> total_violations,
         violations_by_type |-> violations_by_type,
         files_by_language |-> files_by_language,
         success |-> success]

\* Mutant: one violation still counts as success
generate_summary_lenient(rs) ==
    [summary |-> Summary(rs, TotalViolations(rs) <= 1),
     reports |-> rs]

\* generate_summary: the dictionary it returns and the reports as it leaves
\* them; it reads the reports and assigns to none of them
generate_summary(rs) ==
    [summary |-> Summary(rs, TotalViolations(rs) = 0),
     reports |-> rs]

\* _execute_analysis: the summary of the reports that analyze_files returned
GenerateSummary ==
    /\ pc = "called"
    /\ calls[Len(calls)].kind = "returned"
    /\ LET g == generate_summary(calls[Len(calls)].reports)
       IN  /\ summary' = g.summary
           /\ calls' = [calls EXCEPT ![Len(calls)].reports = g.reports]
    /\ pc' = "summarized"
    /\ UNCHANGED <<reports, depth, dir_stats, results, markers, module_stats,
                   check_in, check_out, cli, collected, agg,
                   hook, gen, bridge>>

NextAnalyze == AnalyzeFiles \/ GenerateSummary

SpecAnalyze == InitAnalyze /\ [][NextAnalyze]_vars

Called == Len(calls) >= 1

Returned == Called /\ calls[1].kind = "returned"

\* The files of the list that analyze_files has a runner for
Analyzable ==
    {f \in Range(agg.file_paths) :
        /\ agg.available
        /\ ~ MatchFile(agg.detector.ignore_patterns, PathStr(f, Cwd))
        /\ EXTENSION_MAP(Lower(f.suffix)) \in Runners}

ReportPaths(call) == [i \in 1..Len(call.reports) |-> call.reports[i].file_path]

PositionIn(q, x) == CHOOSE i \in 1..Len(q) : q[i] = x

\* C6: when the adapter raises on one file, analyze_files still returns:
\* that file has a FileReport with an error string and every other
\* analyzable file has its FileReport.
C6_RaiseCaptured ==
    (Called /\ \E f \in Analyzable : agg.outcome[f] = "raise") =>
        /\ calls[1].kind = "returned"
        /\ Range(ReportPaths(calls[1])) = Analyzable
        /\ \A i \in 1..Len(calls[1].reports) :
              agg.outcome[calls[1].reports[i].file_path] = "raise"
                  => calls[1].reports[i].error # None

\* C6, what the code does: the raise ends the call and no file of the
\* batch gets a FileReport.
C6_RaisePropagates ==
    (Called /\ \E f \in Analyzable : agg.outcome[f] = "raise") =>
        calls[1] = [kind |-> "raised", reports |-> <<>>]

C6_RaisedWithOtherFiles ==
    /\ Called
    /\ calls[1].kind = "raised"
    /\ \E f, g \in Analyzable : agg.outcome[f] = "raise" /\ agg.outcome[g] = "ok"

Reorderings(q) ==
    {r \in [1..Len(q) -> Range(q)] : \A i, j \in 1..Len(q) : i # j => r[i] # r[j]}

\* C7 as stated: every permutation of the path list yields the FileReports
\* in the same order.
C7_PermutationInvariant ==
    Returned =>
        \A q \in Reorderings(agg.file_paths) :
            analyze_files(agg, q).result.reports = calls[1].reports

FirstOfLanguage(language) ==
    CHOOSE i \in 1..Len(agg.file_paths) :
        /\ agg.file_paths[i] \in Analyzable
        /\ EXTENSION_MAP(Lower(agg.file_paths[i].suffix)) = language
        /\ \A j \in 1..(i - 1) :
              ~ (/\ agg.file_paths[j] \in Analyzable
                 /\ EXTENSION_MAP(Lower(agg.file_paths[j].suffix)) = language)

\* C7: the returned list holds one FileReport per analyzable file, grouped
\* by language in the order in which the languages first appear in the
\* input, and in input order within a language.
C7_InputOrder ==
    Returned =>
        LET rs == calls[1].reports
            paths == ReportPaths(calls[1])
        IN  /\ Range(paths) = Analyzable
            /\ Len(paths) = Cardinality(Analyzable)
            /\ \A i, j \in 1..Len(rs) :
                  (i < j /\ rs[i].language = rs[j].language) =>
                      PositionIn(agg.file_paths, paths[i]) < PositionIn(agg.file_paths, paths[j])
            /\ \A i, j \in 1..Len(rs) :
                  (i < j /\ rs[i].language # rs[j].language) =>
                      FirstOfLanguage(rs[i].language) < FirstOfLanguage(rs[j].language)

\* Two reports come back in input order, against the sorted order of their paths
C7_Witness ==
    /\ Returned
    /\ Len(calls[1].reports) >= 2
    /\ PositionIn(PathPool, calls[1].reports[1].file_path)
          > PositionIn(PathPool, calls[1].reports[2].file_path)

\* C8: every later call of analyze_files on the same path list, with files
\* and configuration unchanged, has the outcome of the first call: the same
\* FileReports in the same order.
C8_Idempotent ==
    \A i \in 1..Len(calls) : calls[i] = calls[1]

\* Two calls returned reports, one with a violation, while the first call
\* left a cached PathSpec behind that ignores a file of the list
C8_Witness ==
    /\ Len(calls) >= 2
    /\ calls[1].kind = "returned"
    /\ calls[2].kind = "returned"
    /\ \E i \in 1..Len(calls[2].reports) : calls[2].reports[i].violations # <<>>
    /\ agg.detector._pathspec.built
    /\ \E f \in Range(agg.file_paths) : should_ignore(agg.detector, f)

\* The language the detector gives a file of the list
Classify(f) ==
    IF MatchFile(agg.detector.ignore_patterns, PathStr(f, Cwd)) /\ agg.detector.ignore_patterns # <<>>
    THEN "ignored" ELSE EXTENSION_MAP(Lower(f.suffix))

\* Files of a known language that has no registered runner or whose runner
\* is not available
Skipped ==
    {f \in Range(agg.file_paths) :
        /\ Classify(f) \in {"python", "javascript", "typescript"}
        /\ (Classify(f) # "python" \/ ~ agg.available)}

\* C12: a file whose language has no registered or no available runner gets
\* no FileReport and causes no error; the files of the other languages are
\* still reported, and the summary counts only the reported files.
C12_SkipUnavailable ==
    Called =>
        /\ \A f \in Skipped : f \notin Range(ReportPaths(calls[1]))
        /\ (\A f \in Range(agg.file_paths) \ Skipped : agg.outcome[f] # "raise") =>
              /\ calls[1].kind = "returned"
              /\ Range(ReportPaths(calls[1])) =
                    {f \in Range(agg.file_paths) \ Skipped : Classify(f) = "python"}
        /\ pc = "summarized" =>
              /\ summary.total_files =
                    Cardinality({f \in Range(agg.file_paths) \ Skipped : Classify(f) = "python"})
              /\ \A f \in Skipped : Classify(f) \notin DOMAIN summary.files_by_language

\* A JavaScript file is skipped next to a reported Python file, where the
\* adapter would have raised on the skipped file
C12_Witness ==
    /\ pc = "summarized"
    /\ \E f, g \in Range(agg.file_paths) :
          /\ f \in Skipped /\ Classify(f) = "javascript" /\ agg.outcome[f] = "raise"
          /\ Classify(g) = "python" /\ g \in Range(ReportPaths(calls[1]))
    /\ summary.total_files = 1
    /\ DOMAIN summary.files_by_language = {"python"}

\* C13: every FileReport of a file whose measurement failed has its error
\* set, no measurements and no violations.
C13_ErrorReportEmpty ==
    Returned =>
        \A i \in 1..Len(calls[1].reports) :
            LET r == calls[1].reports[i]
            IN  agg.outcome[r.file_path] = "error" =>
                   /\ r.error # None
                   /\ r.metrics = <<>>
                   /\ r.violations = <<>>

\* A failed file is reported with its error and the run continues with a
\* file that has a violation
C13_Witness ==
    /\ Returned
    /\ Len(calls[1].reports) = 2
    /\ agg.outcome[calls[1].reports[1].file_path] = "error"
    /\ calls[1].reports[1].error # None
    /\ calls[1].reports[2].error = None
    /\ calls[1].reports[2].violations # <<>>

\* The metric types that have a default threshold
DefaultKinds == {t \in MetricTypes : field_map(t) # None}

Languages == {"python", "javascript", "typescript"}

IsSynthesizedFrom(rules, defaults, kinds) ==
    /\ Len(rules) = Cardinality(kinds)
    /\ \A t \in kinds :
          \E j \in 1..Len(rules) :
             /\ rules[j].type = t
             /\ rules[j].enabled
             /\ \/ /\ "max_" \o t \in DOMAIN defaults
                   /\ rules[j].threshold = defaults["max_" \o t]
                   /\ rules[j].comparison = "<="
                \/ /\ "min_" \o t \in DOMAIN defaults
                   /\ rules[j].threshold = defaults["min_" \o t]
                   /\ rules[j].comparison = ">="

\* C16: the effective rules of a language are its configured list when it
\* has one; otherwise, for any language, one synthesized rule per metric
\* type that has a default, with the default threshold and <= for max_
\* and >= for min_ defaults.
C16_EffectiveRules ==
    Called =>
        \A l \in Languages :
            IF \E i \in 1..Len(agg.config.languages) : agg.config.languages[i].name = l
            THEN \E i \in 1..Len(agg.config.languages) :
                    /\ agg.config.languages[i].name = l
                    /\ LanguageMetrics(agg.config, l) = agg.config.languages[i].metrics
            ELSE IsSynthesizedFrom(LanguageMetrics(agg.config, l), agg.config.defaults,
                                   DefaultKinds)

\* C16, what the code does: a configured list is returned as it is; without
\* one, Python gets five synthesized rules (none for cognitive_complexity)
\* and every other language gets an empty list.
C16_PythonOnlyFiveRules ==
    Called =>
        \A l \in Languages :
            IF \E i \in 1..Len(agg.config.languages) : agg.config.languages[i].name = l
            THEN \E i \in 1..Len(agg.config.languages) :
                    /\ agg.config.languages[i].name = l
                    /\ LanguageMetrics(agg.config, l) = agg.config.languages[i].metrics
            ELSE IF l = "python"
            THEN IsSynthesizedFrom(LanguageMetrics(agg.config, l), agg.config.defaults,
                                   DefaultKinds \ {"cognitive_complexity"})
            ELSE LanguageMetrics(agg.config, l) = <<>>

\* C17: generate_summary reports success exactly when no report holds a
\* violation, and it leaves the reports it is given as they were.
C17_SummaryPureFold ==
    [][pc' = "summarized" =>
          /\ calls' = calls
          /\ summary'.success <=>
                \A i \in 1..Len(calls[Len(calls)].reports) :
                    calls[Len(calls)].reports[i].violations = <<>>
          /\ summary'.total_violations = Len(AllViolations(calls[Len(calls)].reports))]_vars

\* A summary without success over two reports, one of which has a violation
C17_Witness ==
    /\ pc = "summarized"
    /\ ~ summary.success
    /\ summary.total_files = 2
    /\ summary.files_with_violations = 1
    /\ summary.total_violations = 1

C17_WitnessSuccess ==
    /\ pc = "summarized"
    /\ summary.success
    /\ summary.total_files = 2

\* How often a path occurs in a list
Occurrences(q, x) == Cardinality({i \in 1..Len(q) : q[i] = x})

\* C19: group_by_language partitions the input: a path of a known language
\* is in the list of that language, once, and in no other list; the lists
\* hold input paths only, and none that is ignored or of unknown language.
C19_GroupsPartition ==
    Called =>
        LET g == agg.files_by_language
        IN  /\ \A i, j \in 1..Len(g) : g[i].language = g[j].language => i = j
            /\ \A f \in Range(agg.file_paths) :
                  Classify(f) \in Languages =>
                     \E i \in 1..Len(g) :
                        /\ g[i].language = Classify(f)
                        /\ Occurrences(g[i].files, f) = 1
            /\ \A i \in 1..Len(g) :
                  \A f \in Range(g[i].files) :
                     /\ f \in Range(agg.file_paths)
                     /\ Classify(f) = g[i].language
                     /\ g[i].language \in Languages

\* An ignored Python file and a file of unknown language next to a grouped one
C19_Witness ==
    /\ Called
    /\ Len(agg.file_paths) = 2
    /\ Len(agg.files_by_language) = 1
    /\ Len(agg.files_by_language[1].files) = 1
    /\ \E f \in Range(agg.file_paths) : Classify(f) \in {"ignored", "unknown"}

\* The path has a list of the grouping
Grouped(f) ==
    \E i \in 1..Len(agg.files_by_language) : f \in Range(agg.files_by_language[i].files)

\* The path lies below the working directory
InsideBase(f) == Len(f.dirs) >= Len(Cwd) /\ SubSeq(f.dirs, 1, Len(Cwd)) = Cwd

C20_WitnessName ==
    /\ Called
    /\ OutsideFile \in Range(agg.file_paths)
    /\ ~ Grouped(OutsideFile)

\* The rules of a list that are of the metric type of a Measurement
MatchingRules(metric_configs, metric) ==
    SelectSeq(metric_configs, LAMBDA config : config.type = metric.metric_type)

\* What the Violation Checker returns for a Measurement and each of the
\* rules, in the order of the rules
CheckedAgainst(metric, metric_configs) ==
    FlattenSeqs([j \in 1..Len(metric_configs) |->
                    check_metric_violation(metric, metric_configs[j])])

\* The FileReports of the first call that carry no error
ReportsWithoutError ==
    {i \in 1..Len(calls[1].reports) : calls[1].reports[i].error = None}

\* C25: the Violations of a FileReport without an error are the non-none
\* results of the Violation Checker over every Measurement paired with
\* every rule of the effective list that has its metric type.
C25_ViolationsOfEveryMatchingRule ==
    Returned =>
        \A i \in ReportsWithoutError :
            LET r == calls[1].reports[i]
                rules == LanguageMetrics(agg.config, r.language)
            IN  r.violations =
                   FlattenSeqs([k \in 1..Len(r.metrics) |->
                       CheckedAgainst(r.metrics[k], MatchingRules(rules, r.metrics[k]))])

\* C25, what the code does: of the rules of one metric type only the last
\* of the list is checked; a Measurement gives at most one Violation, and
\* none without a rule of its type.
C25_LastMatchingRuleOnly ==
    Returned =>
        \A i \in ReportsWithoutError :
            LET r == calls[1].reports[i]
                rules == LanguageMetrics(agg.config, r.language)
            IN  r.violations =
                   FlattenSeqs([k \in 1..Len(r.metrics) |->
                       LET matching == MatchingRules(rules, r.metrics[k])
                       IN  IF matching = <<>> THEN <<>>
                           ELSE check_metric_violation(r.metrics[k],
                                                       matching[Len(matching)])])

\* A file is reported without a violation although the first of two rules
\* of the type of its Measurement is violated
C25_DroppedRule ==
    /\ Returned
    /\ agg.config.languages = DuplicateRules
    /\ \E i \in ReportsWithoutError :
          /\ calls[1].reports[i].metrics # <<>>
          /\ calls[1].reports[i].violations = <<>>

(***************************************************************************)
(* The metrics command: cli/metrics.py                                     *)
(***************************************************************************)
ValidCyclomatic == ThresholdString(TRUE, "cyclomatic_complexity", TRUE, 1500)

ValidMaintainability == ThresholdString(TRUE, "maintainability_index", TRUE, 4000)

\* --threshold arguments: none, valid ones, and one of each kind of bad one
\* (no '=', no number, unknown metric, below and above the range, a
\* fraction for an integer metric), also after a valid one
ThresholdChoices ==
    { <<>>,
      <<ValidCyclomatic>>,
      <<ValidCyclomatic, ValidMaintainability>>,
      <<ThresholdString(TRUE, "halstead_volume", TRUE, 50000)>>,
      <<ThresholdString(TRUE, "lines_of_code", TRUE, 30000)>>,
      <<ThresholdString(FALSE, "", FALSE, 0)>>,
      <<ThresholdString(TRUE, "cyclomatic_complexity", FALSE, 0)>>,
      <<ThresholdString(TRUE, "bogus", TRUE, 500)>>,
      <<ThresholdString(TRUE, "cyclomatic_complexity", TRUE, 0)>>,
      <<ThresholdString(TRUE, "cyclomatic_complexity", TRUE, 5100)>>,
      <<ThresholdString(TRUE, "cyclomatic_complexity", TRUE, 1550)>>,
      <<ValidCyclomatic, ThresholdString(TRUE, "maintainability_index", TRUE, 10100)>> }

\* Runs that vary the patterns, without threshold overrides
PatternRuns ==
    [config : [ignore_patterns : ConfigIgnoreChoices, use_gitignore : BOOLEAN,
               defaults : {DefaultsConfig}, languages : {<<>>}],
     gitignore : GitignoreChoices,
     include_pattern : IncludeChoices,
     exclude_pattern : ExcludeChoices,
     threshold : {<<>>},
     force_analyze : BOOLEAN,
     no_gitignore : BOOLEAN,
     files : FilesChoices,
     directory : DirectoryChoices]

\* Runs that vary the threshold overrides and the rules they apply to
ThresholdRuns ==
    [config : [ignore_patterns : {<<ExtPattern(".js")>>}, use_gitignore : {TRUE},
               defaults : {DefaultsConfig}, languages : {<<>>, TwoLanguages}],
     gitignore : {[exists |-> FALSE, lines |-> <<>>]},
     include_pattern : {<<>>},
     exclude_pattern : {<<>>},
     threshold : ThresholdChoices,
     force_analyze : {FALSE},
     no_gitignore : {FALSE},
     files : FilesChoices,
     directory : DirectoryChoices]

InitCollect ==
    /\ pc = "start"
    /\ cli \in PatternRuns \cup ThresholdRuns
    /\ collected = None
    /\ IdleRollup /\ IdleModules /\ IdleCheck /\ IdleAggregator /\ IdleOthers

\* metrics(): build the override, apply it, collect the files; no file
\* found ends the command with exit code 1
MetricsCollect ==
    /\ pc = "start"
    /\ ~ _create_and_configure_override(cli).error
    /\ LET override == _create_and_configure_override(cli).override
           cfg == _apply_overrides_to_configuration(cli.config, override)
           file_paths == _determine_files_to_analyze(cli.files, cli.directory, cfg,
                                                     override, cli.gitignore)
           scanned == IF cli.directory = None /\ cli.files = <<>> THEN Cwd
                      ELSE cli.directory
           after == IF has_overrides(override)
                    THEN merge_on_deep_copy(override, cli.config)
                    ELSE [config_dict |-> cli.config, override |-> override,
                          merged |-> cli.config]
       IN  /\ collected' = [override |-> after.override, config |-> cfg,
                            files |-> file_paths,
                            scanned |-> scanned,
                            detector |-> CollectDetector(scanned, cfg, override,
                                                         cli.gitignore)]
           /\ cli' = [cli EXCEPT !.config = after.config_dict]
           /\ pc' = IF file_paths = {} THEN "exit1_no_files" ELSE "collected"
    /\ UNCHANGED <<reports, depth, dir_stats, results, markers, module_stats,
                   check_in, check_out, agg, calls, summary,
                   hook, gen, bridge>>

\* metrics(): a threshold string that does not parse or validate ends the
\* command with exit code 1 while the override is being built
MetricsThresholdError ==
    /\ pc = "start"
    /\ _create_and_configure_override(cli).error
    /\ pc' = "exit1_threshold"
    /\ UNCHANGED <<reports, depth, dir_stats, results, markers, module_stats,
                   check_in, check_out, cli, collected, agg, calls, summary,
                   hook, gen, bridge>>

\* The orders in which list(set(file_paths)) can hold the files
Orderings(files) ==
    {q \in [1..Cardinality(files) -> files] :
        \A i, j \in 1..Cardinality(files) : i # j => q[i] # q[j]}

\* _execute_analysis: a MetricAggregator of the final configuration analyzes
\* the collected files and summarizes the reports; every file measures
ExecuteAnalysis ==
    /\ pc = "collected"
    /\ \E file_paths \in Orderings(collected.files) :
          LET m == MetricAggregator(collected.config, cli.gitignore)
              a == [config |-> m.config, detector |-> m.detector, available |-> TRUE,
                    outcome |-> [f \in collected.files |-> "ok"],
                    file_paths |-> file_paths, files_by_language |-> <<>>]
              r == analyze_files(a, file_paths)
          IN  /\ agg' = [a EXCEPT !.detector = r.detector,
                                 !.files_by_language = r.files_by_language]
              /\ calls' = <<[r.result EXCEPT
                                !.reports = generate_summary(r.result.reports).reports]>>
              /\ summary' = generate_summary(r.result.reports).summary
    /\ pc' = "analyzed"
    /\ UNCHANGED <<reports, depth, dir_stats, results, markers, module_stats,
                   check_in, check_out, cli, collected,
                   hook, gen, bridge>>

\* Mutant: the command ends with status 1 on violations
_exit_code_one(s) == IF s.success THEN 0 ELSE 1

\* _exit_with_appropriate_code: sys.exit(0 if summary["success"] else 2)
_exit_with_appropriate_code(s) == IF s.success THEN 0 ELSE 2

\* The pc value of an ended command
Exited(code) == CASE code = 0 -> "exit0" [] code = 1 -> "exit1" [] OTHER -> "exit2"

\* metrics(): the results are put out and the command ends
ExitWithAppropriateCode ==
    /\ pc = "analyzed"
    /\ pc' = Exited(_exit_with_appropriate_code(summary))
    /\ UNCHANGED <<reports, depth, dir_stats, results, markers, module_stats,
                   check_in, check_out, cli, collected, agg, calls, summary,
                   hook, gen, bridge>>

NextCollect ==
    MetricsCollect \/ MetricsThresholdError \/ ExecuteAnalysis \/ ExitWithAppropriateCode

SpecCollect == InitCollect /\ [][NextCollect]_vars

Collected == pc \in {"collected", "exit1_no_files", "analyzed", "exit0", "exit2"}

\* The files a directory scan finds before filtering
Candidates == IF collected.scanned = None THEN {} ELSE Glob(collected.scanned)

\* All ignore patterns given on this run: configuration, .gitignore, --exclude
GivenIgnorePatterns ==
    cli.config.ignore_patterns \o cli.exclude_pattern
        \o (IF cli.config.use_gitignore /\ ~ cli.no_gitignore /\ cli.gitignore.exists
            THEN cli.gitignore.lines ELSE <<>>)

MatchesAnIgnorePattern(f) ==
    \E i \in 1..Len(GivenIgnorePatterns) :
        /\ ~ GivenIgnorePatterns[i].neg
        /\ PatternMatches(GivenIgnorePatterns[i], PathStr(f, Cwd))

MatchesAnIncludePattern(f) == MatchFile(cli.include_pattern, PathStr(f, Cwd))

Classified(f) ==
    /\ f \in collected.files
    /\ detect_language(collected.detector, f) = EXTENSION_MAP(Lower(f.suffix))

\* C4: a path that matches both an ignore pattern and a force-include
\* pattern is classified by its extension-derived language and collected,
\* never ignored.
C4_ForceIncludeWins ==
    Collected =>
        \A f \in Candidates :
            (MatchesAnIgnorePattern(f) /\ MatchesAnIncludePattern(f)) => Classified(f)

C4_Witness ==
    /\ pc = "collected"
    /\ ~ cli.force_analyze
    /\ \E f \in Candidates :
          /\ MatchesAnIgnorePattern(f)
          /\ MatchesAnIncludePattern(f)
          /\ MatchFile(pathspec(collected.detector), PathStr(f, Cwd))
          /\ Classified(f)

\* C5: under force_analyze every path of the scanned directory is
\* classified by its extension-derived language, whatever ignore patterns,
\* .gitignore patterns or force-include patterns are configured.
C5_ForceAnalyzeIncludesAll ==
    (Collected /\ cli.force_analyze) => \A f \in Candidates : Classified(f)

\* C5, the part the code keeps: under force_analyze the effective ignore
\* list of the configuration is empty and every path counts as force-included.
C5_EffectiveListEmpty ==
    (Collected /\ cli.force_analyze) =>
        /\ collected.config.ignore_patterns = <<>>
        /\ \A f \in Candidates : should_force_include(collected.override, PathStr(f, Cwd))

C5_DroppedByGitignore ==
    /\ Collected
    /\ cli.force_analyze
    /\ \E f \in Candidates : f \notin collected.files

\* A threshold string the command must refuse: no '=', no number, an
\* unknown metric type, or a value outside the metric type's range
BadThresholdString(t) ==
    \/ ~ t.has_eq
    \/ ~ t.numeric
    \/ t.metric_type \notin MetricTypes
    \/ t.value < MetricThresholds(t.metric_type).ge
    \/ (MetricThresholds(t.metric_type).bounded /\ t.value > MetricThresholds(t.metric_type).le)
    \/ (MetricThresholds(t.metric_type).integer /\ t.value % 100 # 0)

\* C14: with a malformed, unknown or out-of-range threshold override the
\* command ends with the input error before files are collected: no
\* adapter is invoked and no FileReport is produced.
C14_ThresholdFailFast ==
    (pc # "start" /\ \E i \in 1..Len(cli.threshold) : BadThresholdString(cli.threshold[i])) =>
        /\ pc = "exit1_threshold"
        /\ calls = <<>>

\* A valid override followed by an out-of-range one ends the run
C14_Witness ==
    /\ pc = "exit1_threshold"
    /\ Len(cli.threshold) = 2
    /\ ~ BadThresholdString(cli.threshold[1])
    /\ BadThresholdString(cli.threshold[2])
    /\ calls = <<>>

\* The defaults field of a metric type: its name behind max_ or min_
IsDefaultOf(f, t) == f = "max_" \o t \/ f = "min_" \o t

\* C15: applying threshold overrides sets the threshold of the matching
\* default and of every rule of that metric type in every language list,
\* changes nothing else and adds no rule.
C15_OverridesReplaceOnly ==
    (Collected /\ DOMAIN collected.override.threshold_overrides # {}) =>
        LET thr == collected.override.threshold_overrides
            old == cli.config
            new == collected.config
        IN  /\ DOMAIN new.defaults = DOMAIN old.defaults
            /\ \A f \in DOMAIN old.defaults :
                  IF \E t \in DOMAIN thr : IsDefaultOf(f, t)
                  THEN \E t \in DOMAIN thr : IsDefaultOf(f, t) /\ new.defaults[f] = thr[t]
                  ELSE new.defaults[f] = old.defaults[f]
            /\ Len(new.languages) = Len(old.languages)
            /\ \A i \in 1..Len(old.languages) :
                  /\ new.languages[i].name = old.languages[i].name
                  /\ Len(new.languages[i].metrics) = Len(old.languages[i].metrics)
                  /\ \A j \in 1..Len(old.languages[i].metrics) :
                        LET o == old.languages[i].metrics[j]
                        IN  new.languages[i].metrics[j] =
                               IF o.type \in DOMAIN thr
                               THEN [o EXCEPT !.threshold = thr[o.type]]
                               ELSE o

\* Two overrides reach the defaults and the rules of both languages, the
\* disabled rule included
C15_Witness ==
    /\ pc = "collected"
    /\ cli.threshold = <<ValidCyclomatic, ValidMaintainability>>
    /\ cli.config.languages = TwoLanguages
    /\ collected.config.defaults.max_cyclomatic_complexity = 1500
    /\ collected.config.defaults.min_maintainability_index = 4000
    /\ collected.config.languages[1].metrics[1].threshold = 1500
    /\ collected.config.languages[1].metrics[2].threshold = 4000
    /\ collected.config.languages[2].metrics[1].threshold = 1500

\* The command has ended
Ended == pc \in {"exit0", "exit1", "exit2", "exit1_threshold", "exit1_no_files"}

\* C21: the command ends with status 0 exactly when the analysis found no
\* violation, with status 2 when it found one, and with status 1, before
\* any analysis, on a bad threshold override or when no file was found.
C21_ExitStatus ==
    /\ pc \in {"exit0", "exit1", "exit2"} =>
          /\ Len(calls) = 1
          /\ collected.files # {}
          /\ \A i \in 1..Len(cli.threshold) : ~ BadThresholdString(cli.threshold[i])
          /\ pc = "exit0" <=> AllViolations(calls[1].reports) = <<>>
          /\ pc = "exit2" <=> AllViolations(calls[1].reports) # <<>>
    /\ pc = "exit1_threshold" =>
          /\ calls = <<>>
          /\ \E i \in 1..Len(cli.threshold) : BadThresholdString(cli.threshold[i])
    /\ pc = "exit1_no_files" => calls = <<>> /\ collected.files = {}

\* A run with violations ends with status 2
C21_Witness ==
    /\ pc = "exit2"
    /\ AllViolations(calls[1].reports) # <<>>

\* A run with reports and no violation ends with status 0
C21_WitnessZero ==
    /\ pc = "exit0"
    /\ calls[1].reports # <<>>

\* A run that finds no file ends with status 1
C21_WitnessNoFiles == pc = "exit1_no_files" /\ calls = <<>>

(***************************************************************************)
(* The pre-tool hook: main.py                                              *)
(* Cyclomatic complexity, Halstead volume and maintainability index are    *)
(* in hundredths; lines of code and class counts are plain numbers.        *)
(***************************************************************************)
MaxEdits == 2

Metrics(cyclomatic, halstead_volume, halstead_difficulty, halstead_effort, maintainability_index, loc, classes) ==
    [cyclomatic |-> cyclomatic, halstead_volume |-> halstead_volume,
     halstead_difficulty |-> halstead_difficulty, halstead_effort |-> halstead_effort,
     maintainability_index |-> maintainability_index, loc |-> loc, classes |-> classes]

\* Source snippets: the empty string, a one-line statement, a small class
Snippets == {"", "stmt", "class"}

\* heuristic_metrics on the snippets; the empty string has cyclomatic 1.0
\* and, with its volume taken as 1e-8, a maintainability index above 100
heuristic_metrics(source) ==
    CASE source = ""     -> Metrics(100, 0, 0, 0, 15590, 0, 0)
      [] source = "stmt" -> Metrics(100, 475, 150, 713, 9710, 1, 0)
      [] OTHER           -> Metrics(300, 8600, 900, 77400, 6120, 6, 1)

\* radon_metrics: radon's figures, or the heuristic ones without radon
radon_metrics(source) ==
    IF hook.RADON_AVAILABLE
    THEN CASE source = ""     -> Metrics(0, 0, 0, 0, 10000, 0, 0)
           [] source = "stmt" -> Metrics(0, 200, 50, 100, 10000, 1, 0)
           [] OTHER           -> Metrics(300, 4800, 250, 12000, 5830, 6, 1)
    ELSE heuristic_metrics(source)

\* A file path by its stem and suffix; both empty for a missing path
FilePath(stem, suffix) == [stem |-> stem, suffix |-> suffix]

\* detect_language of main.py
main_detect_language(file_path) ==
    IF file_path = FilePath("", "") THEN "unknown"
    ELSE CASE Lower(file_path.suffix) = ".py" -> "python"
           [] Lower(file_path.suffix) \in {".ts", ".tsx"} -> "typescript"
           [] Lower(file_path.suffix) \in {".js", ".jsx"} -> "javascript"
           [] OTHER -> "unknown"

compute_metrics_for_snippet(language, source) ==
    IF language = "python" THEN radon_metrics(source) ELSE heuristic_metrics(source)

\* Mutant: the difference is taken the other way round
compute_diff_reversed(old, new) ==
    [cyclomatic |-> old.cyclomatic - new.cyclomatic,
     halstead_volume |-> old.halstead_volume - new.halstead_volume,
     maintainability_index |-> old.maintainability_index - new.maintainability_index,
     loc |-> old.loc - new.loc,
     class_count |-> old.classes - new.classes]

compute_diff(old, new) ==
    [cyclomatic |-> new.cyclomatic - old.cyclomatic,
     halstead_volume |-> new.halstead_volume - old.halstead_volume,
     maintainability_index |-> new.maintainability_index - old.maintainability_index,
     loc |-> new.loc - old.loc,
     class_count |-> new.classes - old.classes]

DiffKeys == {"cyclomatic", "halstead_volume", "maintainability_index", "loc", "class_count"}

ZeroDiff == [key \in DiffKeys |-> 0]

\* for key in total_diff: total_diff[key] += diff[key]
AddDiff(total_diff, diff) == [key \in DiffKeys |-> total_diff[key] + diff[key]]

\* Mutant: each edit replaces the total instead of adding to it
RECURSIVE MultiEditDiffLast(_, _, _)
MultiEditDiffLast(language, edits, total_diff) ==
    IF edits = <<>> THEN total_diff
    ELSE MultiEditDiffLast(language, Tail(edits),
            compute_diff(compute_metrics_for_snippet(language, Head(edits).old_string),
                         compute_metrics_for_snippet(language, Head(edits).new_string)))

\* The loop over the edits of a MultiEdit
RECURSIVE MultiEditDiff(_, _, _)
MultiEditDiff(language, edits, total_diff) ==
    IF edits = <<>> THEN total_diff
    ELSE MultiEditDiff(language, Tail(edits),
            AddDiff(total_diff,
                    compute_diff(compute_metrics_for_snippet(language, Head(edits).old_string),
                                 compute_metrics_for_snippet(language, Head(edits).new_string))))

\* The checks against the thresholds, in the order of the code; reasons
\* holds the key of each limit that is exceeded
ThresholdReasons(total_diff, thresholds) ==
    SelectSeq(<<"cyclomatic", "halstead_volume", "maintainability_index", "loc", "class_count">>,
              LAMBDA key :
                 CASE key = "cyclomatic" ->
                         total_diff.cyclomatic > thresholds.max_cyclomatic_increase
                   [] key = "halstead_volume" ->
                         total_diff.halstead_volume > thresholds.max_halstead_volume_increase
                   [] key = "maintainability_index" ->
                         10000 + total_diff.maintainability_index
                            < thresholds.min_maintainability_index
                   [] key = "loc" -> total_diff.loc > thresholds.max_loc_increase
                   [] OTHER -> total_diff.class_count > thresholds.max_class_count)

evaluate_operation(tool_name, tool_input, thresholds) ==
    LET language == main_detect_language(tool_input.file_path)
        total_diff ==
            CASE tool_name = "Write" ->
                    AddDiff(ZeroDiff,
                            compute_diff(Metrics(0, 0, 0, 0, 10000, 0, 0),
                                         compute_metrics_for_snippet(language,
                                                                     tool_input.content)))
              [] tool_name = "Edit" ->
                    AddDiff(ZeroDiff,
                            compute_diff(
                               compute_metrics_for_snippet(language, tool_input.old_string),
                               compute_metrics_for_snippet(language, tool_input.new_string)))
              [] OTHER -> MultiEditDiff(language, tool_input.edits, ZeroDiff)
        reasons == ThresholdReasons(total_diff, thresholds)
    IN  IF tool_name \notin {"Write", "Edit", "MultiEdit"}
        THEN [decision |-> "approve", reason |-> "Tool not handled", reasons |-> <<>>]
        ELSE IF reasons = <<>>
        THEN [decision |-> "approve", reason |-> "Operation approved", reasons |-> reasons]
        ELSE [decision |-> "block", reason |-> "Operation blocked", reasons |-> reasons]

\* The thresholds that load_config starts from
ThresholdDefaults ==
    [max_cyclomatic_increase |-> 0,
     max_halstead_volume_increase |-> 0,
     min_maintainability_index |-> 5000,
     max_loc_increase |-> 0,
     max_class_count |-> 9999999]

\* load_config: the numbers under "thresholds" replace the defaults of
\* their names; thresholds is the empty function without a readable file
load_config(thresholds) ==
    [key \in DOMAIN ThresholdDefaults |->
        IF key \in DOMAIN thresholds THEN thresholds[key] ELSE ThresholdDefaults[key]]

\* main(): the decision printed for the hook input
main(hook_data, config_file) ==
    IF ~ hook_data.valid_json
    THEN [decision |-> "approve", reason |-> "Invalid input", reasons |-> <<>>]
    ELSE IF hook_data.hook_event_name # "PreToolUse"
    THEN [decision |-> "approve", reason |-> "Not a PreToolUse event", reasons |-> <<>>]
    ELSE evaluate_operation(hook_data.tool_name, hook_data.tool_input,
                            load_config(config_file))

Edits == [old_string : Snippets, new_string : Snippets]

EditLists == UNION { [1..n -> Edits] : n \in 0..MaxEdits }

ToolInput(file_path, content, old_string, new_string, edits) ==
    [file_path |-> file_path, content |-> content, old_string |-> old_string,
     new_string |-> new_string, edits |-> edits]

FilePaths == { FilePath("", ""), FilePath("m", ".PY"), FilePath("v", ".ts") }

\* The tool calls the hook is asked about; a missing key reads as ""
ToolCalls ==
    { [tool_name |-> "Write", tool_input |-> ToolInput(f, s, "", "", <<>>)] :
         f \in FilePaths, s \in Snippets }
    \cup { [tool_name |-> "Edit", tool_input |-> ToolInput(f, "", e.old_string, e.new_string, <<>>)] :
              f \in FilePaths, e \in Edits }
    \cup { [tool_name |-> "MultiEdit", tool_input |-> ToolInput(f, "", "", "", es)] :
              f \in FilePaths, es \in EditLists }
    \cup { [tool_name |-> "Bash", tool_input |-> ToolInput(f, "class", "", "class", <<>>)] :
              f \in FilePaths }

HookInputs ==
    { [valid_json |-> TRUE, hook_event_name |-> e, tool_name |-> t.tool_name,
       tool_input |-> t.tool_input] : e \in {"PreToolUse", "PostToolUse"}, t \in ToolCalls }
    \cup { [valid_json |-> FALSE, hook_event_name |-> "", tool_name |-> "",
            tool_input |-> ToolInput(FilePath("", ""), "", "", "", <<>>)] }

\* Contents of .ccguard.metrics.config.json: none, one that allows growth,
\* one that allows growth but no new class, one that asks for an index
\* no edit can reach
ConfigFiles ==
    { <<>>,
      [max_cyclomatic_increase |-> 500, max_halstead_volume_increase |-> 10000,
       min_maintainability_index |-> 0, max_loc_increase |-> 10],
      [max_cyclomatic_increase |-> 500, max_halstead_volume_increase |-> 10000,
       min_maintainability_index |-> 0, max_loc_increase |-> 10, max_class_count |-> 0],
      [min_maintainability_index |-> 20000] }

InitHook ==
    /\ pc = "start"
    /\ \E hook_data \in HookInputs, config_file \in ConfigFiles, radon \in BOOLEAN :
          hook = [hook_data |-> hook_data, config_file |-> config_file,
                  RADON_AVAILABLE |-> radon,
                  printed |-> [decision |-> "", reason |-> "", reasons |-> <<>>]]
    /\ IdleRollup /\ IdleModules /\ IdleCheck /\ IdleCollect /\ IdleAggregator
    /\ IdleGenerate /\ IdleBridge

\* One run of the hook script
HookMain ==
    /\ pc = "start"
    /\ hook' = [hook EXCEPT !.printed = main(hook.hook_data, hook.config_file)]
    /\ pc' = "printed"
    /\ UNCHANGED <<reports, depth, dir_stats, results, markers, module_stats,
                   check_in, check_out, cli, collected, agg, calls, summary,
                   gen, bridge>>

NextHook == HookMain

SpecHook == InitHook /\ [][NextHook]_vars

\* The old and new snippets whose differences the operation adds up
EditPairs ==
    LET t == hook.hook_data.tool_input
    IN  CASE hook.hook_data.tool_name = "Write" -> <<[old_string |-> "", new_string |-> t.content]>>
          [] hook.hook_data.tool_name = "Edit" ->
                <<[old_string |-> t.old_string, new_string |-> t.new_string]>>
          [] hook.hook_data.tool_name = "MultiEdit" -> t.edits
          [] OTHER -> <<>>

\* The metrics of a snippet of the edited file; a written file starts from
\* all zero with maintainability index 100
MetricsBefore(i) ==
    IF hook.hook_data.tool_name = "Write" THEN Metrics(0, 0, 0, 0, 10000, 0, 0)
    ELSE compute_metrics_for_snippet(
            main_detect_language(hook.hook_data.tool_input.file_path),
            EditPairs[i].old_string)

MetricsAfter(i) ==
    compute_metrics_for_snippet(main_detect_language(hook.hook_data.tool_input.file_path),
                                EditPairs[i].new_string)

CyclomaticIncrease ==
    SumSeq([i \in 1..Len(EditPairs) |-> MetricsAfter(i).cyclomatic - MetricsBefore(i).cyclomatic])

VolumeIncrease ==
    SumSeq([i \in 1..Len(EditPairs) |->
               MetricsAfter(i).halstead_volume - MetricsBefore(i).halstead_volume])

MaintainabilityDelta ==
    SumSeq([i \in 1..Len(EditPairs) |->
               MetricsAfter(i).maintainability_index - MetricsBefore(i).maintainability_index])

LocIncrease ==
    SumSeq([i \in 1..Len(EditPairs) |-> MetricsAfter(i).loc - MetricsBefore(i).loc])

ClassIncrease ==
    SumSeq([i \in 1..Len(EditPairs) |-> MetricsAfter(i).classes - MetricsBefore(i).classes])

ExceedsALimit ==
    LET thresholds == load_config(hook.config_file)
    IN  \/ CyclomaticIncrease > thresholds.max_cyclomatic_increase
        \/ VolumeIncrease > thresholds.max_halstead_volume_increase
        \/ 10000 + MaintainabilityDelta < thresholds.min_maintainability_index
        \/ LocIncrease > thresholds.max_loc_increase
        \/ ClassIncrease > thresholds.max_class_count

Evaluated ==
    /\ pc = "printed"
    /\ hook.hook_data.valid_json
    /\ hook.hook_data.hook_event_name = "PreToolUse"

\* C22: evaluate_operation answers "block" exactly when the tool is Write,
\* Edit or MultiEdit and the metric differences added up over all edits
\* exceed a limit; in every other case, any other tool included, "approve".
C22_BlockIffLimitExceeded ==
    Evaluated =>
        /\ hook.printed.decision \in {"approve", "block"}
        /\ hook.printed.decision = "block" <=>
              /\ hook.hook_data.tool_name \in {"Write", "Edit", "MultiEdit"}
              /\ ExceedsALimit

\* A MultiEdit of two edits is blocked on the class count alone
C22_Witness ==
    /\ Evaluated
    /\ hook.hook_data.tool_name = "MultiEdit"
    /\ Len(hook.hook_data.tool_input.edits) = 2
    /\ hook.printed.decision = "block"
    /\ hook.printed.reasons = <<"class_count">>

\* Another tool is approved with an input that would be blocked as an Edit
C22_WitnessOtherTool ==
    /\ Evaluated
    /\ hook.hook_data.tool_name = "Bash"
    /\ hook.printed.decision = "approve"

(***************************************************************************)
(* Interactive configuration generation: cli/config_generate.py            *)
(* What the user types is [empty, numeric, value]: an empty line, a number *)
(* in hundredths, or text that is no number.                               *)
(***************************************************************************)
MaxInvalid == 2

Typed(numeric, value) == [empty |-> FALSE, numeric |-> numeric, value |-> value]

EnterKey == [empty |-> TRUE, numeric |-> FALSE, value |-> 0]

\* What is typed at a threshold prompt: Enter, "7", "abc", "200"
Answers == { EnterKey, Typed(TRUE, 700), Typed(FALSE, 0), Typed(TRUE, 20000) }

BasicFields == <<"cyclomatic_complexity", "cognitive_complexity", "maintainability_index">>

HalsteadFields == <<"halstead_volume", "halstead_difficulty", "halstead_effort">>

\* The default= argument of each prompt
PromptDefault(metric_type) ==
    CASE metric_type = "cyclomatic_complexity" -> 1000
      [] metric_type = "cognitive_complexity"  -> 1500
      [] metric_type = "maintainability_index" -> 5000
      [] metric_type = "halstead_volume"       -> 100000
      [] metric_type = "halstead_difficulty"   -> 1000
      [] OTHER                                 -> 1000000

\* The key of the thresholds dictionary that a prompt fills
ThresholdKey(metric_type) ==
    IF metric_type = "maintainability_index" THEN "min_maintainability_index"
    ELSE "max_" \o metric_type

\* click.prompt(text, default=...): Enter gives the default
click_prompt(input, default) == IF input.empty THEN Typed(TRUE, default) ELSE input

\* Mutant: only float() is asked, not the model
validate_with_float(metric_type, value) ==
    IF ~ value.numeric THEN [error |-> TRUE, num |-> 0]
    ELSE [error |-> FALSE, num |-> value.value]

\* validate_with_pydantic: float(value), then MetricThresholds(**{type: num});
\* error stands for click.BadParameter
validate_with_pydantic(metric_type, value) ==
    IF ~ value.numeric THEN [error |-> TRUE, num |-> 0]
    ELSE IF ~ ValidatesAssignment(metric_type, value.value) THEN [error |-> TRUE, num |-> 0]
    ELSE [error |-> FALSE, num |-> value.value]

\* One round of the loop of prompt_with_validation: the prompt, and either
\* the value returned or the two lines of the error
prompt_with_validation(metric_type, input) ==
    LET value == click_prompt(input, PromptDefault(metric_type))
        r == validate_with_pydantic(metric_type, value)
    IN  IF r.error
        THEN [returned |-> FALSE, num |-> 0, value |-> value,
              echo |-> <<"prompt", "Invalid input", "Please try again.">>]
        ELSE [returned |-> TRUE, num |-> r.num, value |-> value, echo |-> <<"prompt">>]

_get_default_halstead_thresholds ==
    [max_halstead_volume |-> 100000,
     max_halstead_difficulty |-> 1000,
     max_halstead_effort |-> 1000000]

\* dict.update
Update(d, e) == [k \in DOMAIN d \cup DOMAIN e |-> IF k \in DOMAIN e THEN e[k] ELSE d[k]]

_create_python_config(defaults) ==
    [name |-> "python",
     metrics |->
        << [type |-> "cyclomatic_complexity",
            threshold |-> defaults.max_cyclomatic_complexity, comparison |-> "<="],
           [type |-> "cognitive_complexity",
            threshold |-> defaults.max_cognitive_complexity, comparison |-> "<="],
           [type |-> "maintainability_index",
            threshold |-> defaults.min_maintainability_index, comparison |-> ">="],
           [type |-> "halstead_volume",
            threshold |-> defaults.max_halstead_volume, comparison |-> "<="],
           [type |-> "halstead_difficulty",
            threshold |-> defaults.max_halstead_difficulty, comparison |-> "<="],
           [type |-> "halstead_effort",
            threshold |-> defaults.max_halstead_effort, comparison |-> "<="] >>]

DefaultTestPatterns == <<"**/test_*.py", "**/*_test.py", "**/tests/**">>

\* AntipastaConfig.generate_default()
GeneratedDefault ==
    [defaults |-> Update([max_cyclomatic_complexity |-> 1000,
                          max_cognitive_complexity |-> 1500,
                          min_maintainability_index |-> 5000],
                         _get_default_halstead_thresholds),
     languages |-> <<>>, use_gitignore |-> TRUE, ignore_patterns |-> <<>>]

EmptyConfigDict ==
    [defaults |-> <<>>, languages |-> <<>>, use_gitignore |-> TRUE, ignore_patterns |-> <<>>]

\* The output file: its text is the old one, or the YAML of a configuration
NoFile == [exists |-> FALSE, text |-> "", yaml |-> EmptyConfigDict]

ExistingFile == [exists |-> TRUE, text |-> "existing content", yaml |-> EmptyConfigDict]

\* _save_config: Path(output).write_text(yaml_content)
_save_config(config) == [exists |-> TRUE, text |-> "yaml", yaml |-> config]

\* Mutant: the file is written whatever the answer
_confirm_file_overwrite_always(exists, overwrite) ==
    [proceed |-> TRUE, echo |-> <<"Configuration will be saved to">>]

\* _confirm_file_overwrite: the question is asked only for an existing file
_confirm_file_overwrite(exists, overwrite) ==
    IF exists /\ ~ overwrite
    THEN [proceed |-> FALSE,
          echo |-> <<"Configuration will be saved to", "File already exists. Overwrite?",
                     "Aborted.">>]
    ELSE [proceed |-> TRUE,
          echo |-> <<"Configuration will be saved to">> \o
                   (IF exists THEN <<"File already exists. Overwrite?">> ELSE <<>>)]

InitGenerate ==
    /\ pc = "start"
    /\ \E non_interactive \in BOOLEAN, file \in {NoFile, ExistingFile} :
          gen = [non_interactive |-> non_interactive,
                 file |-> file,
                 existed |-> file.exists,
                 pending |-> <<>>,
                 advanced |-> FALSE,
                 config_dict |-> EmptyConfigDict,
                 last_input |-> EnterKey,
                 overwrite |-> "",
                 invalid |-> 0,
                 echo |-> <<>>,
                 exit_code |-> -1]
    /\ IdleRollup /\ IdleModules /\ IdleCheck /\ IdleCollect /\ IdleAggregator
    /\ IdleHook /\ IdleBridge

GenerateUnchanged ==
    UNCHANGED <<reports, depth, dir_stats, results, markers, module_stats,
                check_in, check_out, cli, collected, agg, calls, summary,
                hook, bridge>>

\* generate(): without prompts the default configuration is saved at once;
\* otherwise the welcome message is shown and the basic thresholds are asked
Generate ==
    /\ pc = "start"
    /\ IF gen.non_interactive
       THEN /\ gen' = [gen EXCEPT !.file = _save_config(GeneratedDefault),
                                  !.echo = @ \o <<"Configuration saved">>,
                                  !.exit_code = 0]
            /\ pc' = "exit"
       ELSE /\ gen' = [gen EXCEPT !.echo = @ \o <<"Welcome">>, !.pending = BasicFields]
            /\ pc' = "prompting"
    /\ GenerateUnchanged

\* One round of prompt_with_validation for the threshold asked for
PromptWithValidation ==
    /\ pc = "prompting"
    /\ \E input \in Answers :
          LET metric_type == Head(gen.pending)
              r == prompt_with_validation(metric_type, input)
          IN  /\ ~ r.returned => gen.invalid < MaxInvalid
              /\ gen' = IF r.returned
                        THEN [gen EXCEPT
                                 !.config_dict.defaults =
                                     Update(@, [k \in {ThresholdKey(metric_type)} |-> r.num]),
                                 !.pending = Tail(@),
                                 !.last_input = r.value,
                                 !.echo = @ \o r.echo]
                        ELSE [gen EXCEPT !.invalid = @ + 1,
                                         !.last_input = r.value,
                                         !.echo = @ \o r.echo]
              /\ pc' = IF ~ r.returned \/ Tail(gen.pending) # <<>> THEN "prompting"
                       ELSE IF gen.advanced THEN "languages"
                       ELSE "confirm_advanced"
    /\ GenerateUnchanged

\* _build_interactive_config: the question about the Halstead thresholds
ConfirmAdvanced ==
    /\ pc = "confirm_advanced"
    /\ \E yes \in BOOLEAN :
          IF yes
          THEN /\ gen' = [gen EXCEPT !.advanced = TRUE, !.pending = HalsteadFields]
               /\ pc' = "prompting"
          ELSE /\ gen' = [gen EXCEPT
                             !.config_dict.defaults =
                                 Update(@, _get_default_halstead_thresholds)]
               /\ pc' = "languages"
    /\ GenerateUnchanged

\* _collect_language_config
CollectLanguageConfig ==
    /\ pc = "languages"
    /\ \E python \in BOOLEAN :
          gen' = [gen EXCEPT
                     !.config_dict.languages =
                         IF python THEN <<_create_python_config(gen.config_dict.defaults)>>
                         ELSE <<>>]
    /\ pc' = "project_settings"
    /\ GenerateUnchanged

\* _collect_project_settings
CollectProjectSettings ==
    /\ pc = "project_settings"
    /\ \E use_gitignore \in BOOLEAN, test_patterns \in BOOLEAN :
          gen' = [gen EXCEPT
                     !.config_dict.use_gitignore = use_gitignore,
                     !.config_dict.ignore_patterns =
                         IF test_patterns THEN DefaultTestPatterns ELSE <<>>]
    /\ pc' = "finalize"
    /\ GenerateUnchanged

\* _finalize_and_save_config
FinalizeAndSaveConfig ==
    /\ pc = "finalize"
    /\ \E overwrite \in BOOLEAN :
          LET c == _confirm_file_overwrite(gen.file.exists, overwrite)
          IN  /\ ~ gen.file.exists => overwrite
              /\ gen' = [gen EXCEPT
                            !.overwrite = IF ~ gen.file.exists THEN ""
                                          ELSE IF overwrite THEN "y" ELSE "n",
                            !.file = IF c.proceed THEN _save_config(gen.config_dict) ELSE @,
                            !.echo = @ \o c.echo \o
                                     (IF c.proceed THEN <<"Configuration saved">> ELSE <<>>),
                            !.exit_code = 0]
    /\ pc' = "exit"
    /\ GenerateUnchanged

NextGenerate ==
    \/ Generate
    \/ PromptWithValidation
    \/ ConfirmAdvanced
    \/ CollectLanguageConfig
    \/ CollectProjectSettings
    \/ FinalizeAndSaveConfig

SpecGenerate == InitGenerate /\ [][NextGenerate]_vars

\* The last line put out
LastEcho == gen.echo[Len(gen.echo)]

\* C23: in interactive generation, when the output file exists and the
\* user declines to overwrite it, the command says "Aborted.", ends with
\* exit status 0 and leaves the file as it was; the file is written only
\* after the user confirmed.
C23_DeclinedOverwriteKeepsFile ==
    (pc = "exit" /\ ~ gen.non_interactive /\ gen.existed) =>
        /\ gen.overwrite = "n" =>
              /\ LastEcho = "Aborted."
              /\ gen.exit_code = 0
              /\ gen.file = ExistingFile
        /\ gen.file # ExistingFile => gen.overwrite = "y"

C23_Witness ==
    /\ pc = "exit"
    /\ ~ gen.non_interactive
    /\ gen.existed
    /\ gen.overwrite = "n"
    /\ gen.file = ExistingFile
    /\ LastEcho = "Aborted."

\* The file is replaced after the user confirmed
C23_WitnessConfirmed ==
    /\ pc = "exit"
    /\ gen.existed
    /\ gen.overwrite = "y"
    /\ gen.file.text = "yaml"

\* The metric type of a thresholds key
MetricTypeOf(key) ==
    CHOOSE t \in Range(BasicFields) \cup Range(HalsteadFields) : ThresholdKey(t) = key

\* The text is a number that the MetricThresholds field of the type takes
AcceptedText(metric_type, value) ==
    /\ value.numeric
    /\ LET f == MetricThresholds(metric_type)
       IN  /\ f.integer => value.value % 100 = 0
           /\ value.value >= f.ge
           /\ f.bounded => value.value <= f.le

\* A round of the prompt loop: an invalid input is answered by the error
\* lines and the same threshold is asked again; a valid one ends the loop
\* and is the value stored
PromptRound ==
    pc = "prompting" =>
        LET metric_type == Head(gen.pending)
            value == gen'.last_input
        IN  IF AcceptedText(metric_type, value)
            THEN /\ gen'.pending = Tail(gen.pending)
                 /\ gen'.config_dict.defaults[ThresholdKey(metric_type)] = value.value
                 /\ gen'.echo = gen.echo \o <<"prompt">>
            ELSE /\ pc' = "prompting"
                 /\ gen'.pending = gen.pending
                 /\ gen'.config_dict = gen.config_dict
                 /\ gen'.echo = gen.echo \o <<"prompt", "Invalid input", "Please try again.">>

\* Every threshold of the configuration passes its validator
OnlyAcceptedValues ==
    pc \in {"prompting", "confirm_advanced", "languages", "project_settings", "finalize", "exit"} =>
        \A key \in DOMAIN gen.config_dict.defaults :
            AcceptedText(MetricTypeOf(key), Typed(TRUE, gen.config_dict.defaults[key]))

\* C24: prompt_with_validation returns only a value that its validator
\* accepts: an invalid input gives the "Invalid input" message and a new
\* prompt, the first valid input ends the loop, and no rejected value gets
\* into the configuration.
C24_PromptReturnsValidOnly == [][PromptRound]_vars /\ []OnlyAcceptedValues

\* Two invalid inputs were answered before the cyclomatic threshold was set
C24_Witness ==
    /\ pc = "prompting"
    /\ gen.invalid = 2
    /\ Len(gen.pending) = 2
    /\ "max_cyclomatic_complexity" \in DOMAIN gen.config_dict.defaults
    /\ Len(gen.echo) = 8

(***************************************************************************)
(* Rollup claims about the aggregated lists and sets                       *)
(***************************************************************************)
\* C26: after the upward propagation and the final step that adds the
\* direct files, the aggregated file list of every directory holds each
\* report located in the directory or below it once, and no other report.
C26_AggregatedListExact ==
    RolledUp =>
        \A d \in Range(dir_stats.keys) :
            LET all_files == dir_stats.node[d].all_files
            IN  /\ Len(all_files) = Cardinality(SubtreeReports(d))
                /\ \A i \in 1..Len(reports) :
                      Occurrences(all_files, reports[i]) =
                         IF i \in SubtreeReports(d) THEN 1 ELSE 0

\* Files in p/a, p/a/b and p/a/b/c: the list of p/a holds all three, the
\* list of p/a/b two of them
C26_Witness ==
    /\ RolledUp
    /\ Len(reports) = 3
    /\ \E i \in 1..3 : Parent(reports[i].file_path) = <<"p", "a">>
    /\ \E i \in 1..3 : Parent(reports[i].file_path) = <<"p", "a", "b">>
    /\ \E i \in 1..3 : Parent(reports[i].file_path) = <<"p", "a", "b", "c">>
    /\ Len(dir_stats.node[<<"p", "a">>].all_files) = 3
    /\ Len(dir_stats.node[<<"p", "a", "b">>].all_files) = 2
    /\ Len(dir_stats.node[<<"p">>].all_files) = 3

\* What collect_directory_stats returns for a report list at the depth asked
RollupOf(rs) ==
    build_directory_results(
        aggregate_directory_tree_upward(build_directory_tree_structure(rs)),
        find_common_base_directory(rs), EffectiveDepth(depth))

\* Two averages, kept as fractions, are the same number
SameAverage(a, b) ==
    IF a = NoAverage \/ b = NoAverage THEN a = b ELSE a.sum * b.n = b.sum * a.n

\* The same directories with the same counts and averages
SameRollup(x, y) ==
    /\ DOMAIN x = DOMAIN y
    /\ \A k \in DOMAIN x :
          /\ x[k].base.file_count = y[k].base.file_count
          /\ x[k].base.function_count = y[k].base.function_count
          /\ \A m \in MetricsToInclude : SameAverage(x[k].avg[m], y[k].avg[m])

\* C28: the rollup depends on the set of reports only: every reordering of
\* the report list gives the same file_count, function_count and averages
\* for every directory.
C28_OrderIndependent ==
    RolledUp => \A rs \in Reorderings(reports) : SameRollup(RollupOf(rs), results)

\* C28, the part that holds: directories, file counts and function counts
\* are those of any reordering
C28_CountsOrderIndependent ==
    RolledUp =>
        \A rs \in Reorderings(reports) :
            LET other == RollupOf(rs)
            IN  /\ DOMAIN other = DOMAIN results
                /\ \A k \in DOMAIN results : other[k].base = results[k].base

\* Two orders of the same reports give two averages for a directory
C28_AverageDependsOnOrder ==
    /\ RolledUp
    /\ \E rs \in Reorderings(reports) :
          \E k \in DOMAIN results : \E m \in MetricsToInclude :
             /\ RollupOf(rs)[k].base = results[k].base
             /\ ~ SameAverage(RollupOf(rs)[k].avg[m], results[k].avg[m])

\* C29: the rollup is monotone up the tree: for directories A above B in
\* the result, file_count and function_count of A are at least those of B,
\* and the aggregated files and function names of B are among those of A.
C29_MonotoneUpTheTree ==
    RolledUp =>
        LET base == CommonBase
        IN  \A b \in DOMAIN results :
               \A a \in {SubSeq(b, 1, j) : j \in 0..Len(b)} \cap DOMAIN results :
                  LET A == dir_stats.node[base \o a]
                      B == dir_stats.node[base \o b]
                  IN  /\ results[a].base.file_count >= results[b].base.file_count
                      /\ results[a].base.function_count >= results[b].base.function_count
                      /\ Range(B.all_files) \subseteq Range(A.all_files)
                      /\ B.function_names \subseteq A.function_names

\* A directory with more files and more function names than the one below
C29_Witness ==
    /\ RolledUp
    /\ \E a, b \in DOMAIN results :
          /\ IsPrefix(a, b) /\ a # b
          /\ results[a].base.file_count > results[b].base.file_count
          /\ results[a].base.function_count > results[b].base.function_count
          /\ results[b].base.function_count > 0

(***************************************************************************)
(* Claims about the objects given to the override merge                    *)
(***************************************************************************)
\* The step of the metrics command that merges the override
MergeStep ==
    /\ pc = "start"
    /\ pc' \in {"collected", "exit1_no_files"}
    /\ has_overrides(collected'.override)

\* C27: merge_with_config_dict returns a new configuration and leaves the
\* one passed in (defaults, language rule lists, ignore patterns) and the
\* override as they were.
C27_MergeNonMutating ==
    [][MergeStep =>
          /\ cli'.config.defaults = cli.config.defaults
          /\ cli'.config.languages = cli.config.languages
          /\ cli'.config.ignore_patterns = cli.config.ignore_patterns
          /\ cli'.config.use_gitignore = cli.config.use_gitignore
          /\ collected'.override = _create_and_configure_override(cli).override
          /\ collected'.config = merge_with_config_dict(collected'.override, cli.config)]_vars

\* A merge that changed a default and a rule of each language list
C27_Witness ==
    /\ pc = "collected"
    /\ collected.config.defaults # cli.config.defaults
    /\ Len(cli.config.languages) = 2
    /\ \A i \in 1..2 : collected.config.languages[i] # cli.config.languages[i]

\* A merge that changed the ignore patterns
C27_WitnessPatterns ==
    /\ pc = "collected"
    /\ collected.config.ignore_patterns # cli.config.ignore_patterns
    /\ ~ cli.force_analyze
    /\ cli.config.ignore_patterns # <<>>

(***************************************************************************)
(* The dashboard data bridge: code_cop/terminal/data_bridge.py             *)
(***************************************************************************)
MaxRefresh == 2

MaxCallbacks == 2

\* The files a project may hold, in the order sorted() gives their paths
BridgePool ==
    << File(<<"w", "a">>, "x", ".py"),
       File(<<"w", "build">>, "g", ".py"),
       File(<<"w", "doc">>, "r", ".txt"),
       File(<<"w", "web">>, "u", ".js") >>

Callbacks == {"on_update", "on_refresh"}

\* CodeCopConfig.generate_default; of its three ignore patterns the two
\* on file names (test_*.py, *_test.py) match no name of BridgePool
generate_default ==
    [languages |->
        << [name |-> "python",
            metrics |-> << MetricConfig("cyclomatic_complexity", 1000, "<="),
                           MetricConfig("maintainability_index", 5000, ">="),
                           MetricConfig("halstead_volume", 100000, "<="),
                           MetricConfig("halstead_difficulty", 1000, "<="),
                           MetricConfig("halstead_effort", 1000000, "<="),
                           [MetricConfig("cognitive_complexity", 1500, "<=")
                               EXCEPT !.enabled = FALSE] >>] >>,
     ignore_patterns |-> << DirPattern("tests") >>,
     use_gitignore |-> TRUE,
     defaults |-> DefaultsConfig]

\* What the project directory holds as .code_cop.yaml: nothing, a file
\* that does not load, or a configuration
BridgeConfigFiles ==
    { [exists |-> FALSE, loads |-> FALSE, config |-> generate_default],
      [exists |-> TRUE, loads |-> FALSE, config |-> generate_default] }
    \cup
    { [exists |-> TRUE, loads |-> TRUE,
       config |-> [languages |-> languages, ignore_patterns |-> <<>>,
                   use_gitignore |-> TRUE, defaults |-> DefaultsConfig]] :
      languages \in {TwoLanguages, DuplicateRules} }

\* _load_config: the file's configuration, the default when there is no
\* file or loading it raises
_load_config(config_file) ==
    IF config_file.exists /\ config_file.loads
    THEN config_file.config
    ELSE generate_default

\* DashboardDataBridge.__init__
DashboardDataBridge(tree, config_file, gitignore, available, outcome) ==
    LET a == MetricAggregator(_load_config(config_file), gitignore)
    IN  [tree |-> tree,
         aggregator |-> [config |-> a.config, detector |-> a.detector,
                         available |-> available, outcome |-> outcome],
         _cache |-> [keys |-> {}, reports |-> <<>>, summary |-> <<>>, files |-> <<>>],
         _update_callbacks |-> <<>>,
         watching |-> TRUE,
         n_calls |-> 0,
         last |-> [kind |-> "none", reports |-> <<>>, summary |-> <<>>,
                   files |-> <<>>, registered |-> <<>>, notified |-> <<>>]]

BridgeIgnoreDirs == {"node_modules", "venv", "__pycache__", ".git", "dist", "build"}

\* f.parts of a file of the project
Parts(f) == Range(f.dirs) \cup {f.stem}

\* collect_files: the five globs, without the paths that have a part in
\* ignore_dirs, sorted
collect_files(b) ==
    SelectSeq(BridgePool,
              LAMBDA f : /\ f \in b.tree
                         /\ f.suffix \in GlobSuffixes
                         /\ Parts(f) \cap BridgeIgnoreDirs = {})

\* _notify_updates: each registered callback is called, in order; saw is
\* the cache the callback finds
_notify_updates(b) ==
    [i \in 1..Len(b._update_callbacks) |->
        [callback |-> b._update_callbacks[i], saw |-> b._cache]]

\* analyze_all: the bridge as the call leaves it; last holds what the
\* call returned (or that it raised) and the callbacks it invoked
analyze_all(b) ==
    LET files == collect_files(b)
        r == analyze_files(b.aggregator, files)
        reports_ == r.result.reports
        summary_ == generate_summary(reports_).summary
        cached == [b EXCEPT !.aggregator.detector = r.detector,
                            !._cache = [keys |-> {"reports", "summary", "files"},
                                        reports |-> reports_,
                                        summary |-> summary_,
                                        files |-> files]]
    IN  IF files = <<>>
        THEN [b EXCEPT !.n_calls = @ + 1,
                       !.last = [kind |-> "returned",
                                 reports |-> <<>>,
                                 summary |-> [total_files |-> 0, success |-> TRUE],
                                 files |-> files,
                                 registered |-> b._update_callbacks,
                                 notified |-> <<>>]]
        ELSE IF r.result.kind = "raised"
        THEN [b EXCEPT !.n_calls = @ + 1,
                       !.aggregator.detector = r.detector,
                       !.last = [kind |-> "raised",
                                 reports |-> <<>>,
                                 summary |-> <<>>,
                                 files |-> files,
                                 registered |-> b._update_callbacks,
                                 notified |-> <<>>]]
        ELSE [cached EXCEPT !.n_calls = @ + 1,
                            !.last = [kind |-> "returned",
                                      reports |-> reports_,
                                      summary |-> summary_,
                                      files |-> files,
                                      registered |-> b._update_callbacks,
                                      notified |-> _notify_updates(cached)]]

BridgeOutcomes == { [f \in Range(BridgePool) |-> o] : o \in Outcomes }

InitBridge ==
    /\ pc = "start"
    /\ \E tree \in SUBSET Range(BridgePool),
          config_file \in BridgeConfigFiles,
          available \in BOOLEAN,
          outcome \in BridgeOutcomes :
          bridge = DashboardDataBridge(tree, config_file,
                                       [exists |-> FALSE, lines |-> <<>>],
                                       available, outcome)
    /\ IdleRollup /\ IdleModules /\ IdleCheck /\ IdleCollect /\ IdleAggregator
    /\ IdleHook /\ IdleGenerate

BridgeUnchanged ==
    UNCHANGED <<pc, reports, depth, dir_stats, results, markers, module_stats,
                check_in, check_out, cli, collected, agg, calls, summary,
                hook, gen>>

\* Files are added to the project or removed from it
ChangeFiles ==
    /\ \E tree \in SUBSET Range(BridgePool) :
          /\ tree # bridge.tree
          /\ bridge' = [bridge EXCEPT !.tree = tree]
    /\ BridgeUnchanged

\* register_update_callback
RegisterUpdateCallback ==
    /\ Len(bridge._update_callbacks) < MaxCallbacks
    /\ \E callback \in Callbacks :
          bridge' = [bridge EXCEPT !._update_callbacks = Append(@, callback)]
    /\ BridgeUnchanged

\* A call of analyze_all by the dashboard (refresh_metrics)
AnalyzeAll ==
    /\ bridge.n_calls < MaxRefresh
    /\ bridge' = analyze_all(bridge)
    /\ BridgeUnchanged

\* watch_for_changes: one round of the loop, the sleep and then the
\* call; a raise of the call ends the loop
WatchForChanges ==
    /\ bridge.watching
    /\ bridge.n_calls < MaxRefresh
    /\ LET b == analyze_all(bridge)
       IN  bridge' = [b EXCEPT !.watching = b.last.kind # "raised"]
    /\ BridgeUnchanged

NextBridge == ChangeFiles \/ RegisterUpdateCallback \/ AnalyzeAll \/ WatchForChanges

SpecBridge == InitBridge /\ [][NextBridge]_vars

\* The last call of analyze_all returned (reports, summary)
AnalyzeAllReturned == bridge.last.kind = "returned"

CacheHoldsReturn ==
    /\ "reports" \in bridge._cache.keys
    /\ "summary" \in bridge._cache.keys
    /\ bridge._cache.reports = bridge.last.reports
    /\ bridge._cache.summary = bridge.last.summary

\* Each registration was called once, in order, and found the returned
\* values in the cache
NotifiedOnceAfterCaching ==
    /\ Len(bridge.last.notified) = Len(bridge.last.registered)
    /\ \A i \in 1..Len(bridge.last.registered) :
          /\ bridge.last.notified[i].callback = bridge.last.registered[i]
          /\ "reports" \in bridge.last.notified[i].saw.keys
          /\ bridge.last.notified[i].saw.reports = bridge.last.reports
          /\ bridge.last.notified[i].saw.summary = bridge.last.summary

\* C30: whatever the project's file set, once a call of analyze_all has
\* returned (reports, summary), the cached reports and summary equal the
\* returned values and every registered callback has been invoked exactly
\* once for that call, after the cache was updated.
C30_CacheAndCallbacksAfterEveryCall ==
    AnalyzeAllReturned => (CacheHoldsReturn /\ NotifiedOnceAfterCaching)

\* The same statement for the calls that found at least one file to
\* analyze
C30_CacheAndCallbacksWhenFilesFound ==
    (AnalyzeAllReturned /\ bridge.last.files # <<>>) =>
        (CacheHoldsReturn /\ NotifiedOnceAfterCaching)

\* A refresh of a project whose files are gone returned, and the cache
\* still holds the reports of the earlier file set with no callback called
C30_StaleCacheAfterEmptyRefresh ==
    /\ AnalyzeAllReturned
    /\ bridge.last.files = <<>>
    /\ bridge.last.registered # <<>>
    /\ bridge.last.notified = <<>>
    /\ "reports" \in bridge._cache.keys
    /\ bridge._cache.files # <<>>
    /\ bridge._cache.reports # <<>>

\* A refresh that found files returned with a callback registered
C30_RefreshWithFiles ==
    /\ AnalyzeAllReturned
    /\ bridge.last.files # <<>>
    /\ bridge.last.reports # <<>>
    /\ bridge.last.registered # <<>>

====
